---------------------------- MODULE Spec2Model ----------------------------
(***************************************************************************)
(* IrisNotes: the debounced config watcher (setup_config_watcher), the     *)
(* disambiguation selector (select_note), the command path of the CLI      *)
(* (main / run_cli), the two search_notes (cli.rs and the quick app), the  *)
(* text helpers strip_html and truncate, the breadcrumb get_item_path, the *)
(* tree view (print_tree) and the connection mutex of the quick app.       *)
(*                                                                         *)
(* The specifications share the variables; each one drives its own part of *)
(* the state and leaves the rest as initialised:                           *)
(*   SpecWatcher      setup_config_watcher calls, their workers, the clock.*)
(*   SpecWatchers     the same with more than one registration.            *)
(*   SpecSelect       select_note applied to drawn candidate lists.        *)
(*   SpecCli          one process run of main with drawn arguments, store. *)
(*   SpecText         strip_html and truncate applied to drawn texts.      *)
(*   SpecSearch       search_notes of cli.rs on a drawn store and query.   *)
(*   SpecQuick        search_notes of the quick app on a drawn store.      *)
(*   SpecQuickRepeat  the same call made a second time.                    *)
(*   SpecPath         get_item_path from a drawn id, an iteration per step.*)
(*   SpecPathFair     SpecPath with the walk always taking its next step.  *)
(*   SpecTree         the Tree arm on a drawn item list.                   *)
(*   SpecMutex        threads calling search_notes on the shared DbState.  *)
(***************************************************************************)
EXTENDS Integers, Sequences, FiniteSets, TLC

VARIABLES
    \* ---- config watcher ----
    app,              \* which binary: "main" (apps/main) or "root" (src-tauri)
    clock,            \* Instant::now(), in milliseconds
    calls,            \* result of each setup_config_watcher call, in call order
    wpc,              \* per call: position of the worker thread it spawned
    last_event_time,  \* per worker: the local `last_event_time`
    rx,               \* per worker: events sent on its channel, not yet received
    emitted,          \* per worker: times of its emit("config-file-changed") calls
    matched,          \* per worker: times at which it received a watched-name event
    lastRecv,         \* per worker: the event it received last, with the time
    nEvents,          \* events the watchers' callbacks have sent so far
    \* ---- select_note ----
    selPc, selNotes, selNumber, selRet, selErr,
    \* ---- main / run_cli ----
    pc, db, cli, connOk, queryOk, exitStatus, stdout, stderr, spawned, guiStarted,
    \* ---- search_notes (cli.rs) ----
    sPc,              \* position of the search run
    items,            \* the items table, with the full-text index's answer
    query,            \* the query text
    ftsFail,          \* the step of the primary statement that fails, if any
    likeFail,         \* the step of the fallback statement that fails, if any
    issued,           \* statements handed to the connection, in order
    found,            \* what search_notes returned
    \* ---- strip_html / truncate ----
    tPc,              \* position of the text run
    tHtml,            \* the markup given to strip_html
    tText, tMaxLen,   \* the arguments of truncate
    stripped,         \* the markup after the tag removal loop
    plain,            \* what strip_html returned, in cli.rs and in the quick app
    truncated,        \* what truncate returned, or that it panicked
    \* ---- search_notes (quick app) ----
    qPc,              \* position of the command
    qItems,           \* the items table, with the full-text index's answer
    qQuery,           \* the query text
    qConn,            \* DbState.conn: None until init has stored a connection
    qFail,            \* what fails of the combined statement, if anything
    qUndecodable,     \* ids of the rows the row closure fails to decode
    qIssued,          \* statements handed to the connection, in order
    qFound,           \* what the command returned
    \* ---- get_item_path ----
    pPc,              \* position of the walk
    pStore,           \* the items table: title and parent_id per id
    pStart,           \* the id the walk starts from
    current_id,       \* the local `current_id`
    path_parts,       \* the local `path_parts`
    pResult,          \* what get_item_path returned, once it has
    \* ---- tree ----
    trPc,             \* position of the tree run
    trNotes,          \* what get_all_notes returns: the rows in sort_order order
    trQueryOk,        \* whether get_all_notes succeeds
    trRes,            \* how the Tree arm ended
    trOut,            \* the lines print_tree printed
    \* ---- DbState of the quick app ----
    mxPhase,          \* "new" after DbState::new, "serving" once run() has called init
    dbConn,           \* the Option<Connection> inside the mutex
    mxHolder,         \* the thread that holds the MutexGuard, if any
    mxPoisoned,       \* whether a thread panicked while it held the guard
    mxPc,             \* position of each thread in search_notes
    mxQuery,          \* the query each thread was called with
    mxQueried,        \* whether the thread's current call prepared a statement
    mxRet             \* what the thread's last call returned

watcherVars == <<app, clock, calls, wpc, last_event_time, rx, emitted, matched, lastRecv, nEvents>>
selectVars  == <<selPc, selNotes, selNumber, selRet, selErr>>
cliVars     == <<pc, db, cli, connOk, queryOk, exitStatus, stdout, stderr, spawned, guiStarted>>
searchVars  == <<sPc, items, query, ftsFail, likeFail, issued, found>>
textVars    == <<tPc, tHtml, tText, tMaxLen, stripped, plain, truncated>>
quickVars   == <<qPc, qItems, qQuery, qConn, qFail, qUndecodable, qIssued, qFound>>
pathVars    == <<pPc, pStore, pStart, current_id, path_parts, pResult>>
treeVars    == <<trPc, trNotes, trQueryOk, trRes, trOut>>
mutexVars   == <<mxPhase, dbConn, mxHolder, mxPoisoned, mxPc, mxQuery, mxQueried, mxRet>>
vars        == <<watcherVars, selectVars, cliVars, searchVars, textVars, quickVars, pathVars, treeVars, mutexVars>>

\* Option: None is the empty sequence, Some(x) the sequence of x alone.
None == <<>>
Some(x) == <<x>>

(***************************************************************************)
(* Bounds of the model                                                     *)
(***************************************************************************)
MaxCalls   == 1     \* setup_config_watcher calls
MaxEvents  == 2     \* filesystem events
MaxTime    == 400   \* the clock stops here (ms)
TickMs     == 100   \* granularity of the clock (ms)

(***************************************************************************)
(* Config watcher                                                          *)
(***************************************************************************)
debounce_duration == 100

Apps == {"main", "root"}

\* A path is its sequence of components.
ConfigJson == <<"cfg", "config.json">>
ConfigToml == <<"cfg", "config.toml">>
NotesDb    == <<"cfg", "notes.db">>

\* The `paths` of the events the model delivers.
EventPaths ==
    { <<>>, <<ConfigJson>>, <<ConfigToml>>, <<NotesDb, ConfigJson>> }

\* Path::file_name: the last component of the path.
file_name(path) ==
    IF path = <<>> THEN None ELSE Some(path[Len(path)])

\* The filename test taken as a suffix test: any file of the directory passes.
is_config_file_any(a, path) == file_name(path) # None

\* The filename test of the worker loop.
is_config_file(a, path) ==
    IF a = "main"
    THEN file_name(path) = Some("config.json") \/ file_name(path) = Some("config.toml")
    ELSE file_name(path) = Some("config.json")

\* `if let Some(path) = event.paths.first()` followed by the filename test.
EventMatches(a, event) ==
    /\ event.paths # <<>>
    /\ is_config_file(a, event.paths[1])

\* The comparison made non-strict.
DebounceElapsedNonStrict(now, last) == now - last >= debounce_duration

\* now.duration_since(last_event_time) > debounce_duration
DebounceElapsed(now, last) == now - last > debounce_duration

\* The three `?` of setup_config_watcher, and success.
SetupOutcomes == {"ErrConfigDir", "ErrCreateWatcher", "ErrWatch", "Ok"}

Workers == 1..MaxCalls

\* The result of watcher.watch ignored: the thread is spawned all the same.
SpawnsWorkerUnwatched(outcome) == outcome \in {"Ok", "ErrWatch"}

\* Whether a call with this outcome reaches thread::spawn.
SpawnsWorker(outcome) == outcome = "Ok"

\* setup_config_watcher: one call, up to its return.  On Ok the watcher is
\* registered and the worker thread spawned (not yet running).
SetupConfigWatcher ==
    /\ Len(calls) < MaxCalls
    /\ \E outcome \in SetupOutcomes :
          /\ calls' = Append(calls, outcome)
          /\ wpc' = IF SpawnsWorker(outcome)
                    THEN [wpc EXCEPT ![Len(calls) + 1] = "spawned"]
                    ELSE wpc
    /\ UNCHANGED <<app, clock, last_event_time, rx, emitted, matched, lastRecv, nEvents>>

\* The worker thread starts: `let mut last_event_time = Instant::now()`.
WorkerStart(w) ==
    /\ wpc[w] = "spawned"
    /\ wpc' = [wpc EXCEPT ![w] = "loop"]
    /\ last_event_time' = [last_event_time EXCEPT ![w] = clock]
    /\ UNCHANGED <<app, clock, calls, rx, emitted, matched, lastRecv, nEvents>>

\* The watcher's callback: Ok(event) is sent on the channel, Err is printed.
WatcherCallback(queue, res) ==
    IF res.ok THEN Append(queue, res.event) ELSE queue

WatchResults ==
    {[ok |-> TRUE, event |-> [paths |-> p]] : p \in EventPaths}
        \cup {[ok |-> FALSE, event |-> [paths |-> <<>>]]}

\* The operating system reports on the watched directory: every registered
\* watcher runs its callback.
FsNotify ==
    /\ nEvents < MaxEvents
    /\ \E w \in Workers : wpc[w] # "none"
    /\ \E res \in WatchResults :
          /\ rx' = [w \in Workers |->
                    IF wpc[w] # "none" THEN WatcherCallback(rx[w], res) ELSE rx[w]]
          /\ nEvents' = IF res.ok THEN nEvents + 1 ELSE nEvents
    /\ UNCHANGED <<app, clock, calls, wpc, last_event_time, emitted, matched, lastRecv>>

\* One iteration with last_event_time shared by the workers: an emission
\* opens the window of every worker.
HandleEventSharedLast(w) ==
    /\ wpc[w] = "loop"
    /\ rx[w] # <<>>
    /\ LET event == Head(rx[w])
           now   == clock
       IN  /\ rx' = [rx EXCEPT ![w] = Tail(rx[w])]
           /\ lastRecv' = [lastRecv EXCEPT ![w] = [t |-> now, paths |-> event.paths]]
           /\ IF EventMatches(app, event)
              THEN /\ matched' = [matched EXCEPT ![w] = Append(matched[w], now)]
                   /\ IF DebounceElapsed(now, last_event_time[w])
                      THEN /\ last_event_time' = [v \in DOMAIN last_event_time |-> now]
                           /\ emitted' = [emitted EXCEPT ![w] = Append(emitted[w], now)]
                      ELSE UNCHANGED <<last_event_time, emitted>>
              ELSE UNCHANGED <<matched, last_event_time, emitted>>
    /\ UNCHANGED <<app, clock, calls, wpc, nEvents>>

\* One iteration in which an event for another file, received after the
\* window, emits for a change the worker absorbed earlier.
HandleEventFlushesAbsorbed(w) ==
    /\ wpc[w] = "loop"
    /\ rx[w] # <<>>
    /\ LET event == Head(rx[w])
           now   == clock
       IN  /\ rx' = [rx EXCEPT ![w] = Tail(rx[w])]
           /\ lastRecv' = [lastRecv EXCEPT ![w] = [t |-> now, paths |-> event.paths]]
           /\ IF EventMatches(app, event)
              THEN /\ matched' = [matched EXCEPT ![w] = Append(matched[w], now)]
                   /\ IF DebounceElapsed(now, last_event_time[w])
                      THEN /\ last_event_time' = [last_event_time EXCEPT ![w] = now]
                           /\ emitted' = [emitted EXCEPT ![w] = Append(emitted[w], now)]
                      ELSE UNCHANGED <<last_event_time, emitted>>
              ELSE /\ UNCHANGED matched
                   /\ IF Len(matched[w]) > Len(emitted[w])
                         /\ DebounceElapsed(now, last_event_time[w])
                      THEN /\ last_event_time' = [last_event_time EXCEPT ![w] = now]
                           /\ emitted' = [emitted EXCEPT ![w] = Append(emitted[w], now)]
                      ELSE UNCHANGED <<last_event_time, emitted>>
    /\ UNCHANGED <<app, clock, calls, wpc, nEvents>>

\* One iteration that forgets `last_event_time = now`.
HandleEventKeepsLast(w) ==
    /\ wpc[w] = "loop"
    /\ rx[w] # <<>>
    /\ LET event == Head(rx[w])
           now   == clock
       IN  /\ rx' = [rx EXCEPT ![w] = Tail(rx[w])]
           /\ lastRecv' = [lastRecv EXCEPT ![w] = [t |-> now, paths |-> event.paths]]
           /\ IF EventMatches(app, event)
              THEN /\ matched' = [matched EXCEPT ![w] = Append(matched[w], now)]
                   /\ IF DebounceElapsed(now, last_event_time[w])
                      THEN /\ emitted' = [emitted EXCEPT ![w] = Append(emitted[w], now)]
                           /\ UNCHANGED last_event_time
                      ELSE UNCHANGED <<last_event_time, emitted>>
              ELSE UNCHANGED <<matched, last_event_time, emitted>>
    /\ UNCHANGED <<app, clock, calls, wpc, nEvents>>

\* One iteration of `for event in rx`.  emitted records the call of
\* app_handle.emit; an Err it returns is only printed.
HandleEvent(w) ==
    /\ wpc[w] = "loop"
    /\ rx[w] # <<>>
    /\ LET event == Head(rx[w])
           now   == clock
       IN  /\ rx' = [rx EXCEPT ![w] = Tail(rx[w])]
           /\ lastRecv' = [lastRecv EXCEPT ![w] = [t |-> now, paths |-> event.paths]]
           /\ IF EventMatches(app, event)
              THEN /\ matched' = [matched EXCEPT ![w] = Append(matched[w], now)]
                   /\ IF DebounceElapsed(now, last_event_time[w])
                      THEN /\ last_event_time' = [last_event_time EXCEPT ![w] = now]
                           /\ emitted' = [emitted EXCEPT ![w] = Append(emitted[w], now)]
                      ELSE UNCHANGED <<last_event_time, emitted>>
              ELSE UNCHANGED <<matched, last_event_time, emitted>>
    /\ UNCHANGED <<app, clock, calls, wpc, nEvents>>

\* Time passes.
Tick ==
    /\ clock + TickMs <= MaxTime
    /\ clock' = clock + TickMs
    /\ UNCHANGED <<app, calls, wpc, last_event_time, rx, emitted, matched, lastRecv, nEvents>>

\* No event received yet.
NoRecv == [t |-> -1, paths |-> <<>>]

InitWatcher ==
    /\ app \in Apps
    /\ clock = 0
    /\ calls = <<>>
    /\ wpc = [w \in Workers |-> "none"]
    /\ last_event_time = [w \in Workers |-> 0]
    /\ rx = [w \in Workers |-> <<>>]
    /\ emitted = [w \in Workers |-> <<>>]
    /\ matched = [w \in Workers |-> <<>>]
    /\ lastRecv = [w \in Workers |-> NoRecv]
    /\ nEvents = 0

IdleWatcher ==
    /\ app = "main"
    /\ clock = 0
    /\ calls = <<>>
    /\ wpc = [w \in Workers |-> "none"]
    /\ last_event_time = [w \in Workers |-> 0]
    /\ rx = [w \in Workers |-> <<>>]
    /\ emitted = [w \in Workers |-> <<>>]
    /\ matched = [w \in Workers |-> <<>>]
    /\ lastRecv = [w \in Workers |-> NoRecv]
    /\ nEvents = 0

IdleSelect ==
    /\ selPc = "idle"
    /\ selNotes = <<>>
    /\ selNumber = None
    /\ selRet = None
    /\ selErr = <<>>

IdleCli ==
    /\ pc = "idle"
    /\ db = <<>>
    /\ cli = [open_note |-> None, command |-> None]
    /\ connOk = TRUE
    /\ queryOk = TRUE
    /\ exitStatus = None
    /\ stdout = <<>>
    /\ stderr = <<>>
    /\ spawned = <<>>
    /\ guiStarted = FALSE

IdleSearch ==
    /\ sPc = "idle"
    /\ items = <<>>
    /\ query = <<>>
    /\ ftsFail = None
    /\ likeFail = None
    /\ issued = <<>>
    /\ found = [ok |-> TRUE, rows |-> <<>>, err |-> ""]

IdleText ==
    /\ tPc = "idle"
    /\ tHtml = <<>>
    /\ tText = <<>>
    /\ tMaxLen = 0
    /\ stripped = <<>>
    /\ plain = [cli |-> <<>>, quick |-> <<>>]
    /\ truncated = [panic |-> FALSE, out |-> <<>>]

IdleQuick ==
    /\ qPc = "idle"
    /\ qItems = <<>>
    /\ qQuery = <<>>
    /\ qConn = None
    /\ qFail = None
    /\ qUndecodable = {}
    /\ qIssued = <<>>
    /\ qFound = [ok |-> TRUE, results |-> <<>>, err |-> ""]

IdleMutex ==
    /\ mxPhase = "idle"
    /\ dbConn = None
    /\ mxHolder = None
    /\ mxPoisoned = FALSE
    /\ mxPc = <<>>
    /\ mxQuery = <<>>
    /\ mxQueried = <<>>
    /\ mxRet = <<>>

IdlePath ==
    /\ pPc = "idle"
    /\ pStore = <<>>
    /\ pStart = 0
    /\ current_id = None
    /\ path_parts = <<>>
    /\ pResult = None

IdleTree ==
    /\ trPc = "idle"
    /\ trNotes = <<>>
    /\ trQueryOk = TRUE
    /\ trRes = ""
    /\ trOut = <<>>

NextWatcher ==
    \/ SetupConfigWatcher /\ UNCHANGED <<selectVars, cliVars, searchVars, textVars, quickVars, pathVars, treeVars, mutexVars>>
    \/ (\E w \in Workers : WorkerStart(w)) /\ UNCHANGED <<selectVars, cliVars, searchVars, textVars, quickVars, pathVars, treeVars, mutexVars>>
    \/ FsNotify /\ UNCHANGED <<selectVars, cliVars, searchVars, textVars, quickVars, pathVars, treeVars, mutexVars>>
    \/ (\E w \in Workers : HandleEvent(w)) /\ UNCHANGED <<selectVars, cliVars, searchVars, textVars, quickVars, pathVars, treeVars, mutexVars>>
    \/ Tick /\ UNCHANGED <<selectVars, cliVars, searchVars, textVars, quickVars, pathVars, treeVars, mutexVars>>

InitSpecWatcher == InitWatcher /\ IdleSelect /\ IdleCli /\ IdleSearch /\ IdleText /\ IdleQuick /\ IdlePath /\ IdleTree /\ IdleMutex

SpecWatcher == InitSpecWatcher /\ [][NextWatcher]_vars

(***************************************************************************)
(* Config watcher, registered more than once                               *)
(***************************************************************************)
MaxRegistrations == 2   \* setup_config_watcher calls
MaxChanges       == 1   \* changes the operating system reports

Registrations == 1..MaxRegistrations

InitWatchers ==
    /\ app \in Apps
    /\ clock = 0
    /\ calls = <<>>
    /\ wpc = [w \in Registrations |-> "none"]
    /\ last_event_time = [w \in Registrations |-> 0]
    /\ rx = [w \in Registrations |-> <<>>]
    /\ emitted = [w \in Registrations |-> <<>>]
    /\ matched = [w \in Registrations |-> <<>>]
    /\ lastRecv = [w \in Registrations |-> NoRecv]
    /\ nEvents = 0

\* setup_config_watcher, called whether or not an earlier call succeeded:
\* the function keeps no record of a registration. On Ok its own watcher,
\* channel and worker thread exist.
SetupConfigWatcherAgain ==
    /\ Len(calls) < MaxRegistrations
    /\ \E outcome \in SetupOutcomes :
          /\ calls' = Append(calls, outcome)
          /\ wpc' = IF SpawnsWorker(outcome)
                    THEN [wpc EXCEPT ![Len(calls) + 1] = "spawned"]
                    ELSE wpc
    /\ UNCHANGED <<app, clock, last_event_time, rx, emitted, matched, lastRecv, nEvents>>

\* The operating system reports a change in the watched directory: the
\* callback of every registered watcher runs, each with its own sender.
FsNotifyEach ==
    /\ nEvents < MaxChanges
    /\ \E w \in Registrations : wpc[w] # "none"
    /\ \E res \in WatchResults :
          /\ rx' = [w \in Registrations |->
                    IF wpc[w] # "none" THEN WatcherCallback(rx[w], res) ELSE rx[w]]
          /\ nEvents' = IF res.ok THEN nEvents + 1 ELSE nEvents
    /\ UNCHANGED <<app, clock, calls, wpc, last_event_time, emitted, matched, lastRecv>>

NextWatchers ==
    \/ SetupConfigWatcherAgain /\ UNCHANGED <<selectVars, cliVars, searchVars, textVars, quickVars, pathVars, treeVars, mutexVars>>
    \/ (\E w \in Registrations : WorkerStart(w)) /\ UNCHANGED <<selectVars, cliVars, searchVars, textVars, quickVars, pathVars, treeVars, mutexVars>>
    \/ FsNotifyEach /\ UNCHANGED <<selectVars, cliVars, searchVars, textVars, quickVars, pathVars, treeVars, mutexVars>>
    \/ (\E w \in Registrations : HandleEvent(w)) /\ UNCHANGED <<selectVars, cliVars, searchVars, textVars, quickVars, pathVars, treeVars, mutexVars>>
    \/ Tick /\ UNCHANGED <<selectVars, cliVars, searchVars, textVars, quickVars, pathVars, treeVars, mutexVars>>

InitSpecWatchers == InitWatchers /\ IdleSelect /\ IdleCli /\ IdleSearch /\ IdleText /\ IdleQuick /\ IdlePath /\ IdleTree /\ IdleMutex

SpecWatchers == InitSpecWatchers /\ [][NextWatchers]_vars

(***************************************************************************)
(* Claims about the config watcher (checked under SpecWatcher)             *)
(***************************************************************************)
\* The names each binary watches, and the test on an event, as the
\* specification states them.
WatchedNames == IF app = "main" THEN {"config.json", "config.toml"} ELSE {"config.json"}

HasWatchedName(paths) ==
    /\ paths # <<>>
    /\ paths[1] # <<>>
    /\ paths[1][Len(paths[1])] \in WatchedNames

\* Worker w receives the event at the head of its channel in this step.
Receives(w) ==
    /\ wpc[w] = "loop"
    /\ rx[w] # <<>>
    /\ rx'[w] = Tail(rx[w])

\* C1: for every received event with a watched filename, if
\* now - lastEmitTime > 100 ms the worker emits exactly one notification and
\* sets lastEmitTime = now; otherwise it emits nothing and leaves
\* lastEmitTime unchanged.
C1_DebounceStep ==
    [][\A w \in Workers :
          (Receives(w) /\ HasWatchedName(Head(rx[w]).paths)) =>
              IF clock - last_event_time[w] > 100
              THEN /\ emitted'[w] = Append(emitted[w], clock)
                   /\ last_event_time'[w] = clock
              ELSE /\ emitted'[w] = emitted[w]
                   /\ last_event_time'[w] = last_event_time[w]]_vars

\* A worker has emitted for one watched-name event and absorbed a later one
\* that came exactly 100 ms after it.
C1_Witness ==
    \E w \in Workers :
        /\ Len(emitted[w]) = 1
        /\ Len(matched[w]) = 2
        /\ matched[w][2] = emitted[w][1] + 100
        /\ last_event_time[w] = emitted[w][1]

\* C2 (as claimed): of the watched-name events a freshly started worker
\* receives, the first is notified, it is the only notification among the
\* events within 100 ms of it, and the first event later than that is
\* notified too.
C2_BurstOneNotification ==
    \A w \in Workers :
        matched[w] # <<>> =>
            LET first == matched[w][1]
                later == {i \in DOMAIN matched[w] : matched[w][i] > first + 100}
            IN  /\ emitted[w] # <<>>
                /\ emitted[w][1] = first
                /\ Cardinality({i \in DOMAIN emitted[w] : emitted[w][i] <= first + 100}) = 1
                /\ later # {} =>
                      \E j \in DOMAIN emitted[w] :
                          emitted[w][j] = matched[w][CHOOSE i \in later : \A k \in later : i <= k]

\* C3: any two notifications of one worker are more than 100 ms apart.
C3_EmitsSpaced ==
    \A w \in Workers :
        \A i, j \in DOMAIN emitted[w] :
            i < j => emitted[w][j] - emitted[w][i] > 100

\* A worker has emitted twice.
C3_Witness == \E w \in Workers : Len(emitted[w]) >= 2

\* C4: a received event whose first path has no watched filename, or that
\* carries no path, causes no notification and leaves lastEmitTime unchanged.
C4_UnwatchedIgnored ==
    [][\A w \in Workers :
          (Receives(w) /\ ~HasWatchedName(Head(rx[w]).paths)) =>
              /\ emitted'[w] = emitted[w]
              /\ last_event_time'[w] = last_event_time[w]]_vars

\* A worker whose last emission (or start) is more than 100 ms old has just
\* received an event for another file and emitted nothing.
C4_Witness ==
    \E w \in Workers :
        /\ wpc[w] = "loop"
        /\ lastRecv[w].t = clock
        /\ lastRecv[w].paths # <<>>
        /\ ~HasWatchedName(lastRecv[w].paths)
        /\ clock - last_event_time[w] > 100
        /\ emitted[w] = <<>>

\* C5: a call that failed (config directory, watcher creation or watch)
\* returned its error, started no worker and never causes a notification.
C5_FailedSetupStartsNothing ==
    \A c \in Workers :
        (c <= Len(calls) /\ calls[c] # "Ok") =>
            /\ calls[c] \in {"ErrConfigDir", "ErrCreateWatcher", "ErrWatch"}
            /\ wpc[c] = "none"
            /\ rx[c] = <<>>
            /\ emitted[c] = <<>>
            /\ lastRecv[c] = NoRecv

\* The watch failed, time has passed to the end and nothing was started.
C5_Witness ==
    /\ \E c \in Workers : c <= Len(calls) /\ calls[c] = "ErrWatch"
    /\ clock = MaxTime

(***************************************************************************)
(* select_note                                                             *)
(***************************************************************************)
MaxNotes  == 3      \* candidates handed to select_note
MaxNumber == 4      \* largest --number

\* The Option<usize> values of --number.
Numbers == {None} \cup {Some(n) : n \in 0..MaxNumber}

\* struct Note, with the fields the selection and the command path read.
Note(id, title, item_type) == [id |-> id, title |-> title, item_type |-> item_type]

\* Lines written to stderr and stdout, by their format string and arguments.
LineInvalidNumber(n, len)      == <<"Error: Invalid number {}. Use 1-{}", n, len>>
LineMultipleHeader             == <<"Note: Multiple notes found with the same title:">>
LineCandidate(pos, title, id)  == <<"  {}. {} (ID: {})", pos, title, id>>
LineUseNumber                  == <<"Use --number <N> to select a specific note.">>
LineNoTitle(title)             == <<"Error: No note found with title '{}'", title>>
LineNoId(id)                   == <<"Error: No note found with ID '{}'", id>>
LineMainError(msg)             == <<"Error: {}", msg>>
LineOpening(title)             == <<"Opening note: {}", title>>
LineShow(id, raw)              == <<"show", id, raw>>

\* The selection with the explicit number tried before the single-candidate
\* shortcut.
select_note_number_first(notes, number) ==
    IF notes = <<>> THEN [ret |-> None, err |-> <<>>]
    ELSE IF number # None
    THEN LET n == number[1]
         IN  IF n > 0 /\ n <= Len(notes)
             THEN [ret |-> Some(notes[n]), err |-> <<>>]
             ELSE [ret |-> None, err |-> <<LineInvalidNumber(n, Len(notes))>>]
    ELSE IF Len(notes) = 1 THEN [ret |-> Some(notes[1]), err |-> <<>>]
    ELSE [ret |-> None,
          err |-> <<LineMultipleHeader>>
                  \o [i \in 1..Len(notes) |-> LineCandidate(i, notes[i].title, notes[i].id)]
                  \o <<LineUseNumber>>]

\* The selection with the number read as a 0-based index.
select_note_zero_based(notes, number) ==
    IF notes = <<>> THEN [ret |-> None, err |-> <<>>]
    ELSE IF Len(notes) = 1 THEN [ret |-> Some(notes[1]), err |-> <<>>]
    ELSE IF number # None
    THEN LET n == number[1]
         IN  IF n >= 0 /\ n < Len(notes)
             THEN [ret |-> Some(notes[n + 1]), err |-> <<>>]
             ELSE [ret |-> None, err |-> <<LineInvalidNumber(n, Len(notes))>>]
    ELSE [ret |-> None,
          err |-> <<LineMultipleHeader>>
                  \o [i \in 1..Len(notes) |-> LineCandidate(i, notes[i].title, notes[i].id)]
                  \o <<LineUseNumber>>]

\* The selection printing the candidate list for a bad number as well.
select_note_lists_always(notes, number) ==
    IF notes = <<>> THEN [ret |-> None, err |-> <<>>]
    ELSE IF Len(notes) = 1 THEN [ret |-> Some(notes[1]), err |-> <<>>]
    ELSE IF number # None /\ number[1] > 0 /\ number[1] <= Len(notes)
    THEN [ret |-> Some(notes[number[1]]), err |-> <<>>]
    ELSE [ret |-> None,
          err |-> <<LineMultipleHeader>>
                  \o [i \in 1..Len(notes) |-> LineCandidate(i, notes[i].title, notes[i].id)]
                  \o <<LineUseNumber>>]

\* select_note: the note returned (None for Option::None) and what it wrote
\* to stderr.  notes[n - 1] of the 0-based slice is notes[n] here.
select_note(notes, number) ==
    IF notes = <<>> THEN [ret |-> None, err |-> <<>>]
    ELSE IF Len(notes) = 1 THEN [ret |-> Some(notes[1]), err |-> <<>>]
    ELSE IF number # None
    THEN LET n == number[1]
         IN  IF n > 0 /\ n <= Len(notes)
             THEN [ret |-> Some(notes[n]), err |-> <<>>]
             ELSE [ret |-> None, err |-> <<LineInvalidNumber(n, Len(notes))>>]
    ELSE [ret |-> None,
          err |-> <<LineMultipleHeader>>
                  \o [i \in 1..Len(notes) |-> LineCandidate(i, notes[i].title, notes[i].id)]
                  \o <<LineUseNumber>>]

\* Titles stored in items, and titles given on the command line.
StoredTitles == {"Dup", "dup", "Solo"}
QueryTitles  == {"DUP", "solo", "nope"}

\* The notes a candidate list is drawn from: ids 1..MaxNotes, whose titles
\* are equal up to case.
NotePool == {Note(i, IF i % 2 = 1 THEN "Dup" ELSE "dup", "note") : i \in 1..MaxNotes}

\* Sequences without repetition over S, of length at most n.
RECURSIVE DistinctSeqs(_, _)
DistinctSeqs(S, n) ==
    IF n = 0 THEN {<<>>}
    ELSE LET shorter == DistinctSeqs(S, n - 1)
             longest == {r \in shorter : Len(r) = n - 1}
         IN  shorter \cup
             UNION {{Append(r, x) : x \in {y \in S : \A k \in DOMAIN r : r[k] # y}} :
                    r \in longest}

InitSelect ==
    /\ selPc = "ready"
    /\ selNotes \in DistinctSeqs(NotePool, MaxNotes)
    /\ selNumber \in Numbers
    /\ selRet = None
    /\ selErr = <<>>

\* A call of select_note on the drawn candidates and number.
SelectNote ==
    /\ selPc = "ready"
    /\ LET r == select_note(selNotes, selNumber)
       IN  /\ selRet' = r.ret
           /\ selErr' = r.err
    /\ selPc' = "done"
    /\ UNCHANGED <<selNotes, selNumber>>

NextSelect == SelectNote /\ UNCHANGED <<watcherVars, cliVars, searchVars, textVars, quickVars, pathVars, treeVars, mutexVars>>

InitSpecSelect == IdleWatcher /\ InitSelect /\ IdleCli /\ IdleSearch /\ IdleText /\ IdleQuick /\ IdlePath /\ IdleTree /\ IdleMutex

SpecSelect == InitSpecSelect /\ [][NextSelect]_vars

(***************************************************************************)
(* main and run_cli: the open, show and id commands                        *)
(***************************************************************************)
MaxItems == 3       \* rows of the items table

ItemTypes == {"note", "book"}

\* SQL LOWER on the titles of the model.
Lower(s) ==
    CASE s = "Dup"  -> "dup"
      [] s = "DUP"  -> "dup"
      [] s = "Solo" -> "solo"
      [] OTHER      -> s

\* The items tables of the model: row i has id i.
Stores ==
    UNION {[1..n -> StoredTitles \X ItemTypes] : n \in 0..MaxItems}

RowOf(store, i) == Note(i, store[i][1], store[i][2])

Rows(store) == [i \in DOMAIN store |-> RowOf(store, i)]

\* SELECT ... WHERE LOWER(title) = LOWER(?1) AND type = 'note', in row order.
find_notes_by_title(store, title) ==
    SelectSeq(Rows(store),
              LAMBDA r : Lower(r.title) = Lower(title) /\ r.item_type = "note")

\* SELECT ... WHERE id = ?1: the first row, if any.
get_note_by_id(store, id) ==
    LET hits == SelectSeq(Rows(store), LAMBDA r : r.id = id)
    IN  IF hits = <<>> THEN None ELSE Some(hits[1])

\* enum Commands, the arms modelled: Open, Id, Show.
CmdOpen(title, number)      == [name |-> "open", title |-> title, number |-> number,
                                id |-> 0, raw |-> FALSE]
CmdId(id)                   == [name |-> "id", title |-> "", number |-> None,
                                id |-> id, raw |-> FALSE]
CmdShow(title, number, raw) == [name |-> "show", title |-> title, number |-> number,
                                id |-> 0, raw |-> raw]

Commands ==
    {CmdOpen(t, n) : t \in QueryTitles, n \in Numbers}
        \cup {CmdId(i) : i \in 1..(MaxItems + 1)}
        \cup {CmdShow(t, n, r) : t \in QueryTitles, n \in Numbers, r \in BOOLEAN}

\* struct Cli as clap parses it.
Clis ==
    [open_note : {None, Some(1)}, command : {None} \cup {Some(c) : c \in Commands}]

\* What a run has done when it ends: how run_cli ended ("Ok", "Err" with msg,
\* or "Exit1" for std::process::exit(1)), its output and the GUI processes it
\* spawned with --open-note.
CliResult(res, msg, out, err, spawn) ==
    [res |-> res, msg |-> msg, out |-> out, err |-> err, spawn |-> spawn]

\* The Open arm after a successful query.
RunOpen(command, notes) ==
    IF notes = <<>>
    THEN CliResult("Exit1", "", <<>>, <<LineNoTitle(command.title)>>, <<>>)
    ELSE LET sel == select_note(notes, command.number)
         IN  IF sel.ret # None
             THEN CliResult("Ok", "", <<LineOpening(sel.ret[1].title)>>, sel.err,
                            <<sel.ret[1].id>>)
             ELSE CliResult("Exit1", "", <<>>, sel.err, <<>>)

\* The Show arm after a successful query.
RunShow(command, notes) ==
    IF notes = <<>>
    THEN CliResult("Exit1", "", <<>>, <<LineNoTitle(command.title)>>, <<>>)
    ELSE LET sel == select_note(notes, command.number)
         IN  IF sel.ret # None
             THEN CliResult("Ok", "", <<LineShow(sel.ret[1].id, command.raw)>>, sel.err, <<>>)
             ELSE CliResult("Exit1", "", <<>>, sel.err, <<>>)

\* The Id arm with the not-found case falling through to Ok(()).
RunIdFallsThrough(command, note) ==
    IF note # None
    THEN CliResult("Ok", "", <<LineOpening(note[1].title)>>, <<>>, <<note[1].id>>)
    ELSE CliResult("Ok", "", <<>>, <<LineNoId(command.id)>>, <<>>)

\* The Id arm after a successful query.
RunId(command, note) ==
    IF note # None
    THEN CliResult("Ok", "", <<LineOpening(note[1].title)>>, <<>>, <<note[1].id>>)
    ELSE CliResult("Exit1", "", <<>>, <<LineNoId(command.id)>>, <<>>)

\* run_cli.  conn_ok: open_connection succeeds; query_ok: the arm's query does.
run_cli(c, store, conn_ok, query_ok) ==
    IF c.command = None THEN CliResult("Err", "no-command", <<>>, <<>>, <<>>)
    ELSE IF ~conn_ok THEN CliResult("Err", "Failed to open database", <<>>, <<>>, <<>>)
    ELSE IF ~query_ok THEN CliResult("Err", "Failed to find note", <<>>, <<>>, <<>>)
    ELSE LET command == c.command[1]
         IN  CASE command.name = "open" ->
                    RunOpen(command, find_notes_by_title(store, command.title))
               [] command.name = "id" ->
                    RunId(command, get_note_by_id(store, command.id))
               [] command.name = "show" ->
                    RunShow(command, find_notes_by_title(store, command.title))

\* How the process stands when main is through: exit is the status it ended
\* with, or None while irisnotes_lib::run() (gui) goes on.
ProcessEnd(exit, r, err, gui) ==
    [exit |-> exit, out |-> r.out, err |-> err, spawn |-> r.spawn, gui |-> gui]

\* main without the `return` after a successful command.
main_no_return(c, store, conn_ok, query_ok) ==
    IF c.open_note = None /\ c.command # None
    THEN LET r == run_cli(c, store, conn_ok, query_ok)
         IN  CASE r.res = "Exit1" -> ProcessEnd(Some(1), r, r.err, FALSE)
               [] r.res = "Err" /\ r.msg # "no-command" ->
                    ProcessEnd(Some(1), r, Append(r.err, LineMainError(r.msg)), FALSE)
               [] OTHER -> ProcessEnd(None, r, r.err, TRUE)
    ELSE ProcessEnd(None, CliResult("Ok", "", <<>>, <<>>, <<>>), <<>>, TRUE)

\* fn main.
main(c, store, conn_ok, query_ok) ==
    IF c.open_note = None /\ c.command # None
    THEN LET r == run_cli(c, store, conn_ok, query_ok)
         IN  CASE r.res = "Exit1" -> ProcessEnd(Some(1), r, r.err, FALSE)
               [] r.res = "Err" /\ r.msg # "no-command" ->
                    ProcessEnd(Some(1), r, Append(r.err, LineMainError(r.msg)), FALSE)
               [] r.res = "Err" -> ProcessEnd(None, r, r.err, TRUE)
               [] r.res = "Ok" -> ProcessEnd(Some(0), r, r.err, FALSE)
    ELSE ProcessEnd(None, CliResult("Ok", "", <<>>, <<>>, <<>>), <<>>, TRUE)

InitCli ==
    /\ pc = "start"
    /\ db \in Stores
    /\ cli = [open_note |-> None, command |-> None]
    /\ connOk = TRUE
    /\ queryOk = TRUE
    /\ exitStatus = None
    /\ stdout = <<>>
    /\ stderr = <<>>
    /\ spawned = <<>>
    /\ guiStarted = FALSE

\* One run of the binary on the command line c.
Main ==
    /\ pc = "start"
    /\ \E c \in Clis, conn_ok \in BOOLEAN, query_ok \in BOOLEAN :
          \* the store is opened, and queried, only on the command path
          /\ (c.open_note # None \/ c.command = None) => (conn_ok /\ query_ok)
          /\ ~conn_ok => query_ok
          /\ LET p == main(c, db, conn_ok, query_ok)
             IN  /\ cli' = c
                 /\ connOk' = conn_ok
                 /\ queryOk' = query_ok
                 /\ exitStatus' = p.exit
                 /\ stdout' = p.out
                 /\ stderr' = p.err
                 /\ spawned' = p.spawn
                 /\ guiStarted' = p.gui
                 /\ pc' = IF p.gui THEN "gui" ELSE "exited"
    /\ UNCHANGED db

NextCli == Main /\ UNCHANGED <<watcherVars, selectVars, searchVars, textVars, quickVars, pathVars, treeVars, mutexVars>>

InitSpecCli == IdleWatcher /\ IdleSelect /\ InitCli /\ IdleSearch /\ IdleText /\ IdleQuick /\ IdlePath /\ IdleTree /\ IdleMutex

SpecCli == InitSpecCli /\ [][NextCli]_vars

(***************************************************************************)
(* Text: strip_html (cli.rs and the quick app) and truncate (cli.rs)       *)
(***************************************************************************)
MaxMarkupLen == 3   \* tokens of a markup input
MaxStrLen    == 4   \* characters of a truncate input
MaxMaxLen    == 6   \* largest max_len passed to truncate

\* Markup is a sequence of tokens: the characters '<', '>', '&', ' ', '\n',
\* a letter, and the tails of the entity codes, so that "&amp;" is the token
\* '&' followed by the token 'amp;'.
EntityTails == {"nbsp;", "amp;", "lt;", "gt;", "quot;", "#39;", "apos;"}
MarkupTokens == {"<", ">", "&", " ", "\n", "x"} \cup EntityTails

Entity(tail) == <<"&", tail>>

\* The tag removal loop: '<' opens a tag, '>' closes one, neither is copied.
RECURSIVE StripFrom(_, _)
StripFrom(s, in_tag) ==
    IF s = <<>> THEN <<>>
    ELSE CASE s[1] = "<" -> StripFrom(Tail(s), TRUE)
           [] s[1] = ">" -> StripFrom(Tail(s), FALSE)
           [] OTHER -> IF in_tag THEN StripFrom(Tail(s), in_tag)
                       ELSE <<s[1]>> \o StripFrom(Tail(s), in_tag)

strip_tags(html) == StripFrom(html, FALSE)

\* str::replace: the non-overlapping matches, left to right.
RECURSIVE replace(_, _, _)
replace(s, from, to) ==
    IF Len(s) < Len(from) THEN s
    ELSE IF SubSeq(s, 1, Len(from)) = from
         THEN to \o replace(SubSeq(s, Len(from) + 1, Len(s)), from, to)
         ELSE <<s[1]>> \o replace(Tail(s), from, to)

\* The entities are left as they are.
decode_entities_none(s) == s

\* The chain of replace calls of strip_html.
decode_entities(s) ==
    LET r1 == replace(s, Entity("nbsp;"), <<" ">>)
        r2 == replace(r1, Entity("amp;"), <<"&">>)
        r3 == replace(r2, Entity("lt;"), <<"<">>)
        r4 == replace(r3, Entity("gt;"), <<">">>)
        r5 == replace(r4, Entity("quot;"), <<"\"">>)
        r6 == replace(r5, Entity("#39;"), <<"'">>)
    IN  replace(r6, Entity("apos;"), <<"'">>)

is_whitespace(c) == c \in {" ", "\n"}

\* The filter that drops a whitespace character following another one;
\* keep_newline is the `*c != '\n'` test of cli.rs, absent in the quick app.
RECURSIVE CollapseFrom(_, _, _)
CollapseFrom(s, prev_space, keep_newline) ==
    IF s = <<>> THEN <<>>
    ELSE IF is_whitespace(s[1]) /\ ~(keep_newline /\ s[1] = "\n")
         THEN IF prev_space THEN CollapseFrom(Tail(s), TRUE, keep_newline)
              ELSE <<s[1]>> \o CollapseFrom(Tail(s), TRUE, keep_newline)
         ELSE <<s[1]>> \o CollapseFrom(Tail(s), FALSE, keep_newline)

RECURSIVE trim_start(_)
trim_start(s) ==
    IF s # <<>> /\ is_whitespace(s[1]) THEN trim_start(Tail(s)) ELSE s

RECURSIVE trim_end(_)
trim_end(s) ==
    IF s # <<>> /\ is_whitespace(s[Len(s)])
    THEN trim_end(SubSeq(s, 1, Len(s) - 1)) ELSE s

trim(s) == trim_end(trim_start(s))

\* strip_html of cli.rs.
strip_html(html) ==
    trim(CollapseFrom(decode_entities(strip_tags(html)), FALSE, TRUE))

\* strip_html of the quick app.
quick_strip_html(html) ==
    trim(CollapseFrom(decode_entities(strip_tags(html)), FALSE, FALSE))

\* A str is a sequence of characters; a character takes 1, 2 or 3 bytes.
StrChars == {"a", "b", "U+00E9", "U+20AC"}

len_utf8(c) == CASE c = "U+00E9" -> 2 [] c = "U+20AC" -> 3 [] OTHER -> 1

RECURSIVE byte_len(_)
byte_len(s) == IF s = <<>> THEN 0 ELSE len_utf8(s[1]) + byte_len(Tail(s))

saturating_sub(a, b) == IF a >= b THEN a - b ELSE 0

is_char_boundary(s, k) == \E n \in 0..Len(s) : byte_len(SubSeq(s, 1, n)) = k

\* &s[..k]: the characters of the first k bytes; it panics when byte k lies
\* inside a character.
slice_to(s, k) ==
    LET n == CHOOSE m \in 0..Len(s) : byte_len(SubSeq(s, 1, m)) = k
    IN  SubSeq(s, 1, n)

Returned(s) == [panic |-> FALSE, out |-> s]
Panicked == [panic |-> TRUE, out |-> <<>>]

\* truncate of cli.rs.
truncate(s, max_len) ==
    IF byte_len(s) <= max_len THEN Returned(s)
    ELSE IF is_char_boundary(s, saturating_sub(max_len, 3))
         THEN Returned(slice_to(s, saturating_sub(max_len, 3)) \o <<".", ".", ".">>)
         ELSE Panicked

RECURSIVE SeqsUpTo(_, _)
SeqsUpTo(S, n) ==
    IF n = 0 THEN {<<>>}
    ELSE LET shorter == SeqsUpTo(S, n - 1)
         IN  shorter \cup {Append(r, x) : r \in {q \in shorter : Len(q) = n - 1}, x \in S}

InitText ==
    /\ \/ /\ tPc = "strip"
          /\ tHtml \in SeqsUpTo(MarkupTokens, MaxMarkupLen)
          /\ tText = <<>>
          /\ tMaxLen = 0
       \/ /\ tPc = "truncate"
          /\ tHtml = <<>>
          /\ tText \in SeqsUpTo(StrChars, MaxStrLen)
          /\ tMaxLen \in 0..MaxMaxLen
    /\ stripped = <<>>
    /\ plain = [cli |-> <<>>, quick |-> <<>>]
    /\ truncated = Returned(<<>>)

\* strip_html of either binary applied to the drawn markup.
StripHtml ==
    /\ tPc = "strip"
    /\ stripped' = strip_tags(tHtml)
    /\ plain' = [cli |-> strip_html(tHtml), quick |-> quick_strip_html(tHtml)]
    /\ tPc' = "stripped"
    /\ UNCHANGED <<tHtml, tText, tMaxLen, truncated>>

\* truncate applied to the drawn text and budget.
Truncate ==
    /\ tPc = "truncate"
    /\ truncated' = truncate(tText, tMaxLen)
    /\ tPc' = "truncated"
    /\ UNCHANGED <<tHtml, tText, tMaxLen, stripped, plain>>

NextText ==
    \/ StripHtml /\ UNCHANGED <<watcherVars, selectVars, cliVars, searchVars, quickVars, pathVars, treeVars, mutexVars>>
    \/ Truncate /\ UNCHANGED <<watcherVars, selectVars, cliVars, searchVars, quickVars, pathVars, treeVars, mutexVars>>

InitSpecText == IdleWatcher /\ IdleSelect /\ IdleCli /\ IdleSearch /\ InitText /\ IdleQuick /\ IdlePath /\ IdleTree /\ IdleMutex

SpecText == InitSpecText /\ [][NextText]_vars

(***************************************************************************)
(* CLI search: search_notes of cli.rs, the two-tier search                 *)
(***************************************************************************)
MaxRows == 2        \* rows of the items table in the search specifications

\* Text is a sequence of characters.
to_lowercase(s) ==
    [i \in DOMAIN s |-> CASE s[i] = "A" -> "a" [] s[i] = "B" -> "b" [] OTHER -> s[i]]

contains(s, q) ==
    \E i \in 1..(Len(s) - Len(q) + 1) : SubSeq(s, i, i + Len(q) - 1) = q

\* text LIKE '%' || q || '%' of SQLite: case-insensitive on ASCII letters.
\* (The queries of the model hold neither '%' nor '_'.)
like(text, q) == contains(to_lowercase(text), to_lowercase(q))

\* split_whitespace of a text: its maximal runs of non-blank characters.
IsBlank(c) == c = " "

RECURSIVE split_whitespace(_)
split_whitespace(s) ==
    IF s = <<>> THEN <<>>
    ELSE IF IsBlank(s[1]) THEN split_whitespace(Tail(s))
    ELSE LET n == CHOOSE k \in 1..Len(s) :
                      /\ \A i \in 1..k : ~IsBlank(s[i])
                      /\ (k = Len(s) \/ IsBlank(s[k + 1]))
         IN  <<SubSeq(s, 1, n)>> \o split_whitespace(SubSeq(s, n + 1, Len(s)))

\* A row of the items table. rank is the answer of the full-text index
\* (items_fts MATCH ?1 ... rank) for the query of the run: None when the row
\* does not match, Some(r) when it matches with rank r.
Item(id, title, content, item_type, parent_id, deleted_at, sort_order, rank) ==
    [id |-> id, title |-> title, content |-> content, item_type |-> item_type,
     parent_id |-> parent_id, deleted_at |-> deleted_at,
     sort_order |-> sort_order, rank |-> rank]

\* struct Note as the row closures of search_notes fill it.
NoteOfRow(row) ==
    [id |-> row.id, title |-> row.title, content |-> row.content,
     item_type |-> row.item_type, parent_id |-> row.parent_id]

\* ORDER BY key: every enumeration of the rows with the key ascending; rows
\* with equal keys come in an order SQL leaves open.
RECURSIVE OrderBy(_, _)
OrderBy(S, key) ==
    IF S = {} THEN {<<>>}
    ELSE LET least == {x \in S : \A y \in S : key[x] <= key[y]}
         IN  UNION {{<<x>> \o t : t \in OrderBy(S \ {x}, key)} : x \in least}

SqlOk(rows) == [ok |-> TRUE, rows |-> rows, err |-> ""]
SqlErr(e) == [ok |-> FALSE, rows |-> <<>>, err |-> e]

\* Outcome of prepare + query_map + collect::<SqliteResult<Vec<_>>>():
\* fail names the step that fails, if one does; a row can fail to decode
\* only when the statement yields a row.
Collect(fail, rows) ==
    IF fail \in {Some("prepare"), Some("query")} THEN SqlErr(fail[1])
    ELSE IF fail = Some("row") /\ rows # <<>> THEN SqlErr("row")
    ELSE SqlOk(rows)

\* SELECT ... FROM items_fts JOIN items ... WHERE items_fts MATCH ?1
FtsRows(store) == {store[i] : i \in {j \in DOMAIN store : store[j].rank # None}}

\* SELECT ... FROM items WHERE title LIKE ?1 OR content LIKE ?1
LikeRows(store, q) ==
    {store[i] : i \in {j \in DOMAIN store :
                          like(store[j].title, q) \/ like(store[j].content, q)}}

RankKey(S) == [x \in S |-> x.rank[1]]
SortOrderKey(S) == [x \in S |-> x.sort_order]

Notes(rows) == [i \in DOMAIN rows |-> NoteOfRow(rows[i])]

\* The fallback tier runs although the primary tier returned rows.
cli_search_notes_always_fallback(fts_fail, like_fail, fts_rows, like_rows) ==
    [result |-> Collect(like_fail, Notes(like_rows)), issued |-> <<"fts", "like">>]

\* search_notes of cli.rs. fts_rows and like_rows are the rows the two
\* statements yield, in the order the store yields them.
cli_search_notes(fts_fail, like_fail, fts_rows, like_rows) ==
    LET fts_result == Collect(fts_fail, Notes(fts_rows))
    IN  IF fts_result.ok /\ fts_result.rows # <<>>
        THEN [result |-> fts_result, issued |-> <<"fts">>]
        ELSE [result |-> Collect(like_fail, Notes(like_rows)),
              issued |-> <<"fts", "like">>]

Failures == {None, Some("prepare"), Some("query"), Some("row")}

\* The queries of the model: none, blank, a letter in either case.
Queries == {<<>>, <<" ">>, <<"a">>, <<"A">>}

ItemKinds == {<<"note", None>>, <<"book", None>>, <<"note", Some(1)>>}
ItemTexts == {<<<<"A">>, <<"b">>>>, <<<<"b">>, <<"b", "a">>>>}
Ranks == {None, Some(1), Some(2)}

\* Stores of up to MaxRows rows: row i has id i and comes last-but-i in
\* sort_order, so that id order, sort_order order and rank order differ.
SearchStores ==
    UNION {[1..n -> ItemKinds \X ItemTexts \X Ranks] : n \in 0..MaxRows}

StoreRow(store, i) ==
    Item(i, store[i][2][1], store[i][2][2], store[i][1][1], None, store[i][1][2],
         Len(store) + 1 - i, store[i][3])

StoreRows(store) == [i \in DOMAIN store |-> StoreRow(store, i)]

\* The full-text index rejects a query without a token (MATCH '' is a syntax
\* error of the index), so such a run has a failing primary tier.
InitSearch ==
    /\ sPc = "ready"
    /\ items \in {StoreRows(s) : s \in SearchStores}
    /\ query \in Queries
    /\ ftsFail \in Failures
    /\ likeFail \in Failures
    /\ split_whitespace(query) = <<>> => ftsFail # None
    /\ issued = <<>>
    /\ found = SqlOk(<<>>)

\* One call of search_notes on the drawn store and query.
SearchNotes ==
    /\ sPc = "ready"
    /\ \E fts_rows \in OrderBy(FtsRows(items), RankKey(FtsRows(items))),
          like_rows \in OrderBy(LikeRows(items, query), SortOrderKey(LikeRows(items, query))) :
          LET r == cli_search_notes(ftsFail, likeFail, fts_rows, like_rows)
          IN  /\ found' = r.result
              /\ issued' = r.issued
    /\ sPc' = "done"
    /\ UNCHANGED <<items, query, ftsFail, likeFail>>

NextSearch == SearchNotes /\ UNCHANGED <<watcherVars, selectVars, cliVars, textVars, quickVars, pathVars, treeVars, mutexVars>>

InitSpecSearch == IdleWatcher /\ IdleSelect /\ IdleCli /\ InitSearch /\ IdleText /\ IdleQuick /\ IdlePath /\ IdleTree /\ IdleMutex

SpecSearch == InitSpecSearch /\ [][NextSearch]_vars

(***************************************************************************)
(* Quick search: search_notes of the quick app, one combined statement     *)
(***************************************************************************)
MaxFill == 15       \* root notes added to the drawn store, all full-text matches

ResultLimit  == 15  \* LIMIT 15
PreviewLen   == 80  \* plain_content.len() > 80
CharsPerWord == 6   \* content_length / 6

\* The characters of a markup token.
chars_of(t) ==
    CASE t = "nbsp;" -> <<"n", "b", "s", "p", ";">>
      [] t = "amp;" -> <<"a", "m", "p", ";">>
      [] t = "lt;" -> <<"l", "t", ";">>
      [] t = "gt;" -> <<"g", "t", ";">>
      [] t = "quot;" -> <<"q", "u", "o", "t", ";">>
      [] t = "#39;" -> <<"#", "3", "9", ";">>
      [] t = "apos;" -> <<"a", "p", "o", "s", ";">>
      [] OTHER -> <<t>>

RECURSIVE chars(_)
chars(s) == IF s = <<>> THEN <<>> ELSE chars_of(s[1]) \o chars(Tail(s))

\* query.split_whitespace().map(|word| format!("{}*", word.replace('"', ""))).join(" ")
RECURSIVE join(_, _)
join(words, sep) ==
    IF words = <<>> THEN <<>>
    ELSE IF Len(words) = 1 THEN words[1]
    ELSE words[1] \o sep \o join(Tail(words), sep)

fts_query(q) ==
    LET words == split_whitespace(q)
    IN  join([i \in DOMAIN words |-> replace(words[i], <<"\"">>, <<>>) \o <<"*">>], <<" ">>)

\* LEFT JOIN items p ON i.parent_id = p.id: the row with that id, if any.
JoinedParent(store, parent_id) ==
    IF parent_id # None /\ parent_id[1] \in DOMAIN store
    THEN Some(store[parent_id[1]]) ELSE None

ParentOf(store, i) == JoinedParent(store, i.parent_id)

GrandparentOf(store, i) ==
    IF ParentOf(store, i) = None THEN None
    ELSE JoinedParent(store, ParentOf(store, i)[1].parent_id)

OptTitle(o) == IF o = None THEN None ELSE Some(o[1].title)
OptType(o) == IF o = None THEN None ELSE Some(o[1].item_type)

\* A row of the combined statement.
ResultRow(store, i, snippet, priority, sort_rank) ==
    [id |-> i.id, title |-> i.title, note_title_for_match |-> i.title,
     snippet |-> snippet,
     parent_title |-> OptTitle(ParentOf(store, i)),
     parent_type |-> OptType(ParentOf(store, i)),
     grandparent_title |-> OptTitle(GrandparentOf(store, i)),
     priority |-> priority, sort_rank |-> sort_rank,
     content_length |-> Len(chars(i.content)), raw_content |-> i.content]

Live(store) ==
    {store[j] : j \in {k \in DOMAIN store :
                          store[k].item_type = "note" /\ store[k].deleted_at = None}}

\* The rows the fts_results CTE selects from.
FtsNotes(store) == {i \in Live(store) : i.rank # None}

fts_results(store) ==
    {ResultRow(store, i, <<"snippet">>, 1, i.rank[1]) : i \in FtsNotes(store)}

\* (p.type IN ('book','section') AND LOWER(p.title) LIKE '%'||?2||'%')
\* OR (pp.type = 'book' AND LOWER(pp.title) LIKE '%'||?2||'%')
ParentMatches(store, i, q) ==
    LET p == ParentOf(store, i)
        pp == GrandparentOf(store, i)
    IN  \/ p # None /\ p[1].item_type \in {"book", "section"}
                    /\ like(to_lowercase(p[1].title), q)
        \/ pp # None /\ pp[1].item_type = "book"
                     /\ like(to_lowercase(pp[1].title), q)

\* The parent matches without the NOT IN (SELECT id FROM fts_results) test.
parent_matches_with_fts_notes(store, q) ==
    {ResultRow(store, i, <<>>, 2, 0) :
        i \in {n \in Live(store) : ParentMatches(store, n, q)}}

parent_matches(store, q) ==
    {ResultRow(store, i, <<>>, 2, 0) :
        i \in {n \in Live(store) :
                  /\ ParentMatches(store, n, q)
                  /\ n.id \notin {f.id : f \in FtsNotes(store)}}}

\* ORDER BY priority, sort_rank: every enumeration ascending in that pair.
PairLeq(a, b) ==
    \/ a.priority < b.priority
    \/ a.priority = b.priority /\ a.sort_rank <= b.sort_rank

RECURSIVE OrderByPriorityRank(_)
OrderByPriorityRank(S) ==
    IF S = {} THEN {<<>>}
    ELSE LET least == {x \in S : \A y \in S : PairLeq(x, y)}
         IN  UNION {{<<x>> \o t : t \in OrderByPriorityRank(S \ {x})} : x \in least}

Limit(rows, n) == SubSeq(rows, 1, IF Len(rows) <= n THEN Len(rows) ELSE n)

\* The rows come back without the LIMIT.
StatementRows_unlimited(store, q) ==
    OrderByPriorityRank(fts_results(store) \cup parent_matches(store, q))

\* What the combined statement can yield on the store for the query text q.
StatementRows(store, q) ==
    {Limit(o, ResultLimit) :
        o \in OrderByPriorityRank(fts_results(store) \cup parent_matches(store, q))}

content_preview(plain_content) ==
    IF Len(chars(plain_content)) > PreviewLen
    THEN SubSeq(chars(plain_content), 1, PreviewLen) \o <<".", ".", ".">>
    ELSE IF plain_content = <<>> THEN <<"Empty note">>
    ELSE chars(plain_content)

\* The title test comes after the content default.
match_type_content_first(row, query_lower) ==
    IF row.priority = 2 THEN "parent" ELSE "content"

match_type(row, query_lower) ==
    IF row.priority = 2 THEN "parent"
    ELSE IF contains(to_lowercase(row.note_title_for_match), query_lower) THEN "title"
    ELSE "content"

\* The row closure of query_map.
SearchResult(row, query_lower) ==
    [id |-> row.id, title |-> row.title, snippet |-> row.snippet,
     content_preview |-> content_preview(quick_strip_html(row.raw_content)),
     book_name |-> CASE row.parent_type = Some("section") -> row.grandparent_title
                     [] row.parent_type = Some("book") -> row.parent_title
                     [] OTHER -> None,
     section_name |-> CASE row.parent_type = Some("section") -> row.parent_title
                        [] OTHER -> None,
     match_type |-> match_type(row, query_lower),
     word_count |-> Len(chars(row.raw_content)) \div CharsPerWord]

QuickOk(results) == [ok |-> TRUE, results |-> results, err |-> ""]
QuickErr(e) == [ok |-> FALSE, results |-> <<>>, err |-> e]

\* for result in results { if let Ok(r) = result { push } }: a row whose
\* decoding fails is left out.
RECURSIVE Decoded(_, _, _)
Decoded(rows, undecodable, query_lower) ==
    IF rows = <<>> THEN <<>>
    ELSE IF rows[1].id \in undecodable
         THEN Decoded(Tail(rows), undecodable, query_lower)
         ELSE <<SearchResult(rows[1], query_lower)>>
              \o Decoded(Tail(rows), undecodable, query_lower)

\* search_notes of the quick app. conn is the Option in DbState; fail names
\* what fails of the statement, if anything does: prepare, query_map, or the
\* first step (the rows iterator then yields one Err and ends); rows are the
\* rows the statement yields; undecodable holds the ids of the rows whose
\* decoding in the row closure fails.
quick_search_notes(conn, q, fail, rows, undecodable) ==
    IF conn = None
    THEN [result |-> QuickErr("Database not initialized"), issued |-> <<>>]
    ELSE IF fts_query(q) = <<>>
    THEN [result |-> QuickOk(<<>>), issued |-> <<>>]
    ELSE IF fail \in {Some("prepare"), Some("query")}
    THEN [result |-> QuickErr(fail[1]), issued |-> <<"combined">>]
    ELSE IF fail = Some("step")
    THEN [result |-> QuickOk(<<>>), issued |-> <<"combined">>]
    ELSE [result |-> QuickOk(Decoded(rows, undecodable, to_lowercase(q))),
          issued |-> <<"combined">>]

QuickFailures == {None, Some("prepare"), Some("query"), Some("step")}

QuickTitles == {<<"A">>, <<"b">>}

\* The drawn stores: a book (1), a section in it (2), a note in the section
\* (3), a note in the book (4) and fill root notes that all match the
\* full-text query, the later the better ranked.
QuickStore(t1, t2, t3, d3, r3, t4, r4, fill) ==
    [i \in 1..(4 + fill) |->
        CASE i = 1 -> Item(1, t1, <<>>, "book", None, None, 1, Some(1))
          [] i = 2 -> Item(2, t2, <<>>, "section", Some(1), None, 2, None)
          [] i = 3 -> Item(3, t3, <<"<", "x", ">">>, "note", Some(2), d3, 3, r3)
          [] i = 4 -> Item(4, t4, <<"x", " ", "&", "amp;">>, "note", Some(1), None, 4, r4)
          [] OTHER -> Item(i, <<"b">>, <<"x">>, "note", None, None, i, Some(100 - i))]

\* Few and many fill notes: below, at and above the result limit.
FillCounts == {0, 1, MaxFill - 1, MaxFill}

QuickStores ==
    {QuickStore(t1, t2, t3, d3, r3, t4, r4, fill) :
        t1 \in QuickTitles, t2 \in QuickTitles, t3 \in QuickTitles,
        d3 \in {None, Some(1)}, r3 \in {None, Some(2)},
        t4 \in QuickTitles, r4 \in {None, Some(2)}, fill \in FillCounts}

InitQuick ==
    /\ qPc = "ready"
    /\ qItems \in QuickStores
    /\ qQuery \in Queries
    /\ qConn \in {None, Some("conn")}
    /\ qFail \in QuickFailures
    /\ qUndecodable \in {{}, {4}}
    /\ qConn = None => (qFail = None /\ qUndecodable = {})
    /\ qIssued = <<>>
    /\ qFound = QuickOk(<<>>)

\* One invocation of the search_notes command.
QuickSearchNotes ==
    /\ qPc = "ready"
    /\ \E rows \in StatementRows(qItems, to_lowercase(qQuery)) :
          LET r == quick_search_notes(qConn, qQuery, qFail, rows, qUndecodable)
          IN  /\ qFound' = r.result
              /\ qIssued' = r.issued
    /\ qPc' = "done"
    /\ UNCHANGED <<qItems, qQuery, qConn, qFail, qUndecodable>>

NextQuick ==
    QuickSearchNotes /\ UNCHANGED <<watcherVars, selectVars, cliVars, searchVars, textVars, pathVars, treeVars, mutexVars>>

InitSpecQuick ==
    IdleWatcher /\ IdleSelect /\ IdleCli /\ IdleSearch /\ IdleText /\ InitQuick /\ IdlePath /\ IdleTree /\ IdleMutex

SpecQuick == InitSpecQuick /\ [][NextQuick]_vars

\* A second invocation of search_notes with the same query, the store, the
\* connection and the statement's failures being what they were.
QuickSearchAgain ==
    /\ qPc = "done"
    /\ \E rows \in StatementRows(qItems, to_lowercase(qQuery)) :
          LET r == quick_search_notes(qConn, qQuery, qFail, rows, qUndecodable)
          IN  /\ qFound' = r.result
              /\ qIssued' = r.issued
    /\ qPc' = "again"
    /\ UNCHANGED <<qItems, qQuery, qConn, qFail, qUndecodable>>

NextQuickRepeat ==
    \/ QuickSearchNotes /\ UNCHANGED <<watcherVars, selectVars, cliVars, searchVars, textVars, pathVars, treeVars, mutexVars>>
    \/ QuickSearchAgain /\ UNCHANGED <<watcherVars, selectVars, cliVars, searchVars, textVars, pathVars, treeVars, mutexVars>>

SpecQuickRepeat == InitSpecQuick /\ [][NextQuickRepeat]_vars

(***************************************************************************)
(* Breadcrumb: get_item_path of cli.rs, one loop iteration per step        *)
(***************************************************************************)
MaxPathItems == 3   \* rows of the items table in the breadcrumb specification
MaxPathSteps == 4   \* iterations of the walk the model follows

\* Row i of the store: its title and its parent_id. An id beyond the store
\* has no row.
PathRow(title, parent_id) == [title |-> title, parent_id |-> parent_id]

\* The stores: row i is titled by its id, and its parent_id is absent or
\* names any id, its own and the one without a row included.
PathStores ==
    UNION {{[i \in 1..n |-> PathRow(ToString(i), parents[i])] :
               parents \in [1..n -> {None} \cup {Some(k) : k \in 1..(MaxPathItems + 1)}]} :
           n \in 0..MaxPathItems}

reverse(s) == [i \in DOMAIN s |-> s[Len(s) + 1 - i]]

PathOk(str) == [ok |-> TRUE, path |-> str, err |-> ""]
PathErr(e) == [ok |-> FALSE, path |-> <<>>, err |-> e]

\* A missing row is returned as an error of the walk.
walk_step_missing_fails(store, id, parts) ==
    IF id \in DOMAIN store
    THEN [pc |-> "loop", parts |-> Append(parts, store[id].title),
          current |-> store[id].parent_id, result |-> None]
    ELSE [pc |-> "done", parts |-> parts, current |-> Some(id),
          result |-> Some(PathErr("no row"))]

\* The walk stops when it meets a title it has already collected.
walk_step_stops_on_cycle(store, id, parts) ==
    IF id \in DOMAIN store /\ \A k \in DOMAIN parts : parts[k] # store[id].title
    THEN [pc |-> "loop", parts |-> Append(parts, store[id].title),
          current |-> store[id].parent_id, result |-> None]
    ELSE [pc |-> "break", parts |-> parts, current |-> Some(id), result |-> None]

\* One iteration of the while loop whose statement was prepared: query_row
\* finds the row of id, or fails and the loop breaks.
walk_step(store, id, parts) ==
    IF id \in DOMAIN store
    THEN [pc |-> "loop", parts |-> Append(parts, store[id].title),
          current |-> store[id].parent_id, result |-> None]
    ELSE [pc |-> "break", parts |-> parts, current |-> Some(id), result |-> None]

\* path_parts.reverse(); Ok(path_parts.join(" / "))
path_string(parts) ==
    join([i \in DOMAIN parts |-> <<reverse(parts)[i]>>], <<" / ">>)

InitPath ==
    /\ pPc = "loop"
    /\ pStore \in PathStores
    /\ pStart \in 1..(MaxPathItems + 1)
    /\ current_id = Some(pStart)
    /\ path_parts = <<>>
    /\ pResult = None

\* while let Some(ref id) = current_id: an iteration that prepares its
\* statement and looks the row up.
PathStep ==
    /\ pPc = "loop"
    /\ current_id # None
    /\ Len(path_parts) < MaxPathSteps
    /\ LET r == walk_step(pStore, current_id[1], path_parts)
       IN  /\ pPc' = r.pc
           /\ path_parts' = r.parts
           /\ current_id' = r.current
           /\ pResult' = r.result
    /\ UNCHANGED <<pStore, pStart>>

\* conn.prepare(..)? fails in an iteration: the error is returned.
PathPrepareFails ==
    /\ pPc = "loop"
    /\ current_id # None
    /\ Len(path_parts) < MaxPathSteps
    /\ pPc' = "done"
    /\ pResult' = Some(PathErr("prepare"))
    /\ UNCHANGED <<pStore, pStart, current_id, path_parts>>

\* The loop has ended, by current_id = None or by break.
PathReturn ==
    /\ \/ pPc = "loop" /\ current_id = None
       \/ pPc = "break"
    /\ pPc' = "done"
    /\ pResult' = Some(PathOk(path_string(path_parts)))
    /\ UNCHANGED <<pStore, pStart, current_id, path_parts>>

NextPath ==
    \/ PathStep /\ UNCHANGED <<watcherVars, selectVars, cliVars, searchVars, textVars, quickVars, treeVars, mutexVars>>
    \/ PathPrepareFails /\ UNCHANGED <<watcherVars, selectVars, cliVars, searchVars, textVars, quickVars, treeVars, mutexVars>>
    \/ PathReturn /\ UNCHANGED <<watcherVars, selectVars, cliVars, searchVars, textVars, quickVars, treeVars, mutexVars>>

InitSpecPath ==
    IdleWatcher /\ IdleSelect /\ IdleCli /\ IdleSearch /\ IdleText /\ IdleQuick /\ InitPath /\ IdleTree /\ IdleMutex

SpecPath == InitSpecPath /\ [][NextPath]_vars

\* The loop runs on: an iteration that can be taken is taken.
SpecPathFair == InitSpecPath /\ [][NextPath]_vars /\ WF_vars(NextPath)

(***************************************************************************)
(* Tree view: the Tree arm of run_cli with its nested print_tree           *)
(***************************************************************************)
MaxTreeItems == 3   \* rows of the items table in the tree specification

\* The icon print_tree puts before a title.
icon(item_type) ==
    CASE item_type = "book" -> "books"
      [] item_type = "section" -> "folder"
      [] item_type = "note" -> "memo"
      [] OTHER -> "bullet"

\* println!("{}{} {}", prefix, icon, note.title), prefix being the indent.
LineTree(indent, item_type, title) == <<"{}{} {}", indent, icon(item_type), title>>

\* print_tree(notes, parent_id, indent): the lines it prints. PrintFrom is
\* its for loop from the k-th note on.
RECURSIVE PrintFrom(_, _, _, _)
PrintFrom(notes, k, parent_id, indent) ==
    IF k > Len(notes) THEN <<>>
    ELSE (IF notes[k].parent_id = parent_id
          THEN <<LineTree(indent, notes[k].item_type, notes[k].title)>>
               \o PrintFrom(notes, 1, Some(notes[k].id), indent + 1)
          ELSE <<>>)
         \o PrintFrom(notes, k + 1, parent_id, indent)

print_tree(notes, parent_id, indent) == PrintFrom(notes, 1, parent_id, indent)

\* The Tree arm: get_all_notes, then print_tree from the roots.
run_tree(notes, query_ok) ==
    IF ~query_ok
    THEN [res |-> "Err", msg |-> "Failed to get items: {}", out |-> <<>>]
    ELSE [res |-> "Ok", msg |-> "", out |-> print_tree(notes, None, 0)]

\* The kind of the row with id i.
TreeKind(i) == CASE i = 1 -> "book" [] i = 2 -> "section" [] i = 3 -> "note" [] OTHER -> "page"

\* What get_all_notes can return: the rows in sort_order order, which is any
\* order of their ids; a row is titled by its id, and its parent_id is absent
\* or names any id, its own and one without a row included.
TreeList(ids, parents) ==
    [k \in DOMAIN ids |-> [id |-> ids[k], title |-> ToString(ids[k]),
                           item_type |-> TreeKind(ids[k]), parent_id |-> parents[k]]]

InitTree ==
    /\ trPc = "start"
    /\ \E n \in 0..MaxTreeItems :
          \E ids \in {s \in [1..n -> 1..n] : \A a, b \in 1..n : a # b => s[a] # s[b]} :
             \E parents \in [1..n -> {None} \cup {Some(p) : p \in 1..(n + 1)}] :
                trNotes = TreeList(ids, parents)
    /\ trQueryOk \in BOOLEAN
    /\ trRes = ""
    /\ trOut = <<>>

\* One run of `irisnotes tree` on the drawn rows.
TreeCmd ==
    /\ trPc = "start"
    /\ LET r == run_tree(trNotes, trQueryOk)
       IN  /\ trRes' = r.res
           /\ trOut' = r.out
    /\ trPc' = "done"
    /\ UNCHANGED <<trNotes, trQueryOk>>

NextTree ==
    TreeCmd /\ UNCHANGED <<watcherVars, selectVars, cliVars, searchVars, textVars, quickVars, pathVars, mutexVars>>

InitSpecTree ==
    IdleWatcher /\ IdleSelect /\ IdleCli /\ IdleSearch /\ IdleText /\ IdleQuick /\ IdlePath /\ InitTree /\ IdleMutex

SpecTree == InitSpecTree /\ [][NextTree]_vars

(***************************************************************************)
(* DbState of the quick app: the connection behind its mutex               *)
(***************************************************************************)
MaxSearchers == 2   \* threads that run search_notes

Searchers == 1..MaxSearchers

NotInitialized == [ok |-> FALSE, err |-> "Database not initialized"]
Failed(what) == [ok |-> FALSE, err |-> what]
Found == [ok |-> TRUE, err |-> ""]

\* DbState::new(): the mutex holds None.
InitMutex ==
    /\ mxPhase = "new"
    /\ dbConn = None
    /\ mxHolder = None
    /\ mxPoisoned = FALSE
    /\ mxPc = [c \in Searchers |-> "idle"]
    /\ mxQuery = [c \in Searchers |-> <<>>]
    /\ mxQueried = [c \in Searchers |-> FALSE]
    /\ mxRet = [c \in Searchers |-> None]

\* run(): let _ = db_state.init(&db_path), before the builder serves a
\* command. Connection::open fails and leaves None, or the opened
\* connection is stored under the lock.
DbInit ==
    /\ mxPhase = "new"
    /\ \E opened \in BOOLEAN :
          dbConn' = IF opened THEN Some("conn") ELSE None
    /\ mxPhase' = "serving"
    /\ UNCHANGED <<mxHolder, mxPoisoned, mxPc, mxQuery, mxQueried, mxRet>>

\* The frontend invokes search_notes on thread c.
SearchCall(c) ==
    /\ mxPhase = "serving"
    /\ mxPc[c] \in {"idle", "done", "panicked"}
    /\ \E q \in Queries : mxQuery' = [mxQuery EXCEPT ![c] = q]
    /\ mxPc' = [mxPc EXCEPT ![c] = "lock"]
    /\ mxQueried' = [mxQueried EXCEPT ![c] = FALSE]
    /\ mxRet' = [mxRet EXCEPT ![c] = None]
    /\ UNCHANGED <<mxPhase, dbConn, mxHolder, mxPoisoned>>

\* The function returns r: its locals are dropped, the guard among them.
Return(c, r) ==
    /\ mxRet' = [mxRet EXCEPT ![c] = Some(r)]
    /\ mxPc' = [mxPc EXCEPT ![c] = "done"]
    /\ mxHolder' = None

\* state.conn.lock().unwrap(): blocks while another thread holds the guard;
\* on a poisoned mutex lock() is an Err and unwrap panics.
LockConn(c) ==
    /\ mxPc[c] = "lock"
    /\ mxHolder = None
    /\ IF mxPoisoned
       THEN /\ mxPc' = [mxPc EXCEPT ![c] = "panicked"]
            /\ UNCHANGED mxHolder
       ELSE /\ mxPc' = [mxPc EXCEPT ![c] = "locked"]
            /\ mxHolder' = Some(c)
    /\ UNCHANGED <<mxPhase, dbConn, mxPoisoned, mxQuery, mxQueried, mxRet>>

\* The guard is dropped as soon as the connection has been looked at.
AsRef_drops_guard(c) ==
    /\ mxPc[c] = "locked"
    /\ IF dbConn = None THEN Return(c, NotInitialized)
       ELSE IF fts_query(mxQuery[c]) = <<>> THEN Return(c, Found)
       ELSE /\ mxPc' = [mxPc EXCEPT ![c] = "prepare"]
            /\ mxHolder' = None
            /\ UNCHANGED mxRet
    /\ UNCHANGED <<mxPhase, dbConn, mxPoisoned, mxQuery, mxQueried>>

\* guard.as_ref().ok_or("Database not initialized")?, then the blank test.
AsRef(c) ==
    /\ mxPc[c] = "locked"
    /\ IF dbConn = None THEN Return(c, NotInitialized)
       ELSE IF fts_query(mxQuery[c]) = <<>> THEN Return(c, Found)
       ELSE /\ mxPc' = [mxPc EXCEPT ![c] = "prepare"]
            /\ UNCHANGED <<mxHolder, mxRet>>
    /\ UNCHANGED <<mxPhase, dbConn, mxPoisoned, mxQuery, mxQueried>>

\* conn.prepare(sql).map_err(..)?
Prepare(c) ==
    /\ mxPc[c] = "prepare"
    /\ mxQueried' = [mxQueried EXCEPT ![c] = TRUE]
    /\ \/ /\ mxPc' = [mxPc EXCEPT ![c] = "query_map"]
          /\ UNCHANGED <<mxHolder, mxRet>>
       \/ Return(c, Failed("prepare"))
    /\ UNCHANGED <<mxPhase, dbConn, mxPoisoned, mxQuery>>

\* stmt.query_map(params, closure).map_err(..)?
QueryMap(c) ==
    /\ mxPc[c] = "query_map"
    /\ \/ /\ mxPc' = [mxPc EXCEPT ![c] = "rows"]
          /\ UNCHANGED <<mxHolder, mxRet>>
       \/ Return(c, Failed("query"))
    /\ UNCHANGED <<mxPhase, dbConn, mxPoisoned, mxQuery, mxQueried>>

\* for result in results { .. }; Ok(search_results). The row closure slices
\* the plain content at byte 80, which panics inside a character: the
\* unwinding drops the guard and poisons the mutex.
RowLoop(c) ==
    /\ mxPc[c] = "rows"
    /\ \/ /\ Return(c, Found)
          /\ UNCHANGED mxPoisoned
       \/ /\ mxPc' = [mxPc EXCEPT ![c] = "panicked"]
          /\ mxHolder' = None
          /\ mxPoisoned' = TRUE
          /\ UNCHANGED mxRet
    /\ UNCHANGED <<mxPhase, dbConn, mxQuery, mxQueried>>

NextMutex ==
    \/ DbInit /\ UNCHANGED <<watcherVars, selectVars, cliVars, searchVars, textVars, quickVars, pathVars, treeVars>>
    \/ (\E c \in Searchers : SearchCall(c)) /\ UNCHANGED <<watcherVars, selectVars, cliVars, searchVars, textVars, quickVars, pathVars, treeVars>>
    \/ (\E c \in Searchers : LockConn(c)) /\ UNCHANGED <<watcherVars, selectVars, cliVars, searchVars, textVars, quickVars, pathVars, treeVars>>
    \/ (\E c \in Searchers : AsRef(c)) /\ UNCHANGED <<watcherVars, selectVars, cliVars, searchVars, textVars, quickVars, pathVars, treeVars>>
    \/ (\E c \in Searchers : Prepare(c)) /\ UNCHANGED <<watcherVars, selectVars, cliVars, searchVars, textVars, quickVars, pathVars, treeVars>>
    \/ (\E c \in Searchers : QueryMap(c)) /\ UNCHANGED <<watcherVars, selectVars, cliVars, searchVars, textVars, quickVars, pathVars, treeVars>>
    \/ (\E c \in Searchers : RowLoop(c)) /\ UNCHANGED <<watcherVars, selectVars, cliVars, searchVars, textVars, quickVars, pathVars, treeVars>>

InitSpecMutex ==
    IdleWatcher /\ IdleSelect /\ IdleCli /\ IdleSearch /\ IdleText /\ IdleQuick /\ IdlePath /\ IdleTree /\ InitMutex

SpecMutex == InitSpecMutex /\ [][NextMutex]_vars

(***************************************************************************)
(* Claims about select_note (checked under SpecSelect)                     *)
(***************************************************************************)
\* Whether a stderr line is one of the candidate listing / the range report.
IsListingLine(line) ==
    line[1] \in {LineMultipleHeader[1], LineCandidate(0, "", 0)[1], LineUseNumber[1]}

IsRangeLine(line) == line[1] = LineInvalidNumber(0, 0)[1]

\* C6: with exactly one candidate select_note returns it for every value of
\* the explicit index and reports nothing; with no candidate it returns none.
C6_SingleCandidate ==
    selPc = "done" =>
        /\ Len(selNotes) = 1 => (selRet = Some(selNotes[1]) /\ selErr = <<>>)
        /\ Len(selNotes) = 0 => selRet = None

\* select_note was given one candidate and an index greater than one.
C6_Witness ==
    /\ selPc = "done"
    /\ Len(selNotes) = 1
    /\ selNumber # None
    /\ selNumber[1] > 1
    /\ selRet # None

\* C7: with two or more candidates and an explicit index n, select_note
\* returns candidate n (1-based) exactly when 1 <= n <= len; for n = 0 or
\* n > len it returns none and reports the range 1..len.
C7_ExplicitIndex ==
    (selPc = "done" /\ Len(selNotes) >= 2 /\ selNumber # None) =>
        LET n == selNumber[1]
        IN  IF 1 <= n /\ n <= Len(selNotes)
            THEN selRet = Some(selNotes[n])
            ELSE /\ selRet = None
                 /\ \E i \in DOMAIN selErr :
                       /\ IsRangeLine(selErr[i])
                       /\ selErr[i][2] = n
                       /\ selErr[i][3] = Len(selNotes)

\* select_note returned the last of three candidates for n = 3.
C7_Witness ==
    /\ selPc = "done"
    /\ Len(selNotes) = 3
    /\ selNumber = Some(3)
    /\ selRet = Some(selNotes[3])

\* C8: for two or more candidates, no index and an index out of range both
\* return none, with different reports: the first lists every candidate once,
\* in order, with its 1-based position, title and id; the second reports only
\* the number and the valid range; no such line is written in any other case.
C8_DistinctReports ==
    selPc = "done" =>
        LET len       == Len(selNotes)
            ambiguous == len >= 2 /\ selNumber = None
            invalid   == len >= 2 /\ selNumber # None /\ ~(selNumber[1] \in 1..len)
            listing   == {i \in DOMAIN selErr : IsListingLine(selErr[i])}
            range     == {i \in DOMAIN selErr : IsRangeLine(selErr[i])}
        IN  /\ ambiguous =>
                /\ selRet = None
                /\ range = {}
                /\ Len(selErr) = len + 2
                /\ selErr[1] = LineMultipleHeader
                /\ selErr[len + 2] = LineUseNumber
                /\ \A k \in 1..len :
                      /\ selErr[k + 1][1] = LineCandidate(0, "", 0)[1]
                      /\ selErr[k + 1][2] = k
                      /\ selErr[k + 1][3] = selNotes[k].title
                      /\ selErr[k + 1][4] = selNotes[k].id
            /\ invalid =>
                /\ selRet = None
                /\ listing = {}
                /\ Len(selErr) = 1
                /\ IsRangeLine(selErr[1])
                /\ selErr[1][2] = selNumber[1]
                /\ selErr[1][3] = len
            /\ ~ambiguous => listing = {}
            /\ ~invalid => range = {}

\* The candidate listing has been produced for three candidates.
C8_Witness ==
    /\ selPc = "done"
    /\ Len(selNotes) = 3
    /\ selRet = None
    /\ selNumber = None
    /\ Len(selErr) = 5

(***************************************************************************)
(* Claims about the command path (checked under SpecCli)                   *)
(***************************************************************************)
\* The run took the command path and its store calls succeeded.
OnCommandPath ==
    /\ pc # "start"
    /\ cli.open_note = None
    /\ cli.command # None
    /\ connOk
    /\ queryOk

TheCommand == cli.command[1]

ByTitle == TheCommand.name \in {"open", "show"}

\* The rows a title lookup is about: notes whose title equals the argument
\* up to case; the rows an id lookup is about.
TitleRows == {i \in DOMAIN db : db[i][2] = "note" /\ Lower(db[i][1]) = Lower(TheCommand.title)}

IdRows == {i \in DOMAIN db : i = TheCommand.id}

NotFound ==
    \/ ByTitle /\ TitleRows = {}
    \/ TheCommand.name = "id" /\ IdRows = {}

InvalidSelection ==
    /\ ByTitle
    /\ Cardinality(TitleRows) >= 2
    /\ TheCommand.number # None
    /\ ~(TheCommand.number[1] \in 1..Cardinality(TitleRows))

Ambiguous ==
    /\ ByTitle
    /\ Cardinality(TitleRows) >= 2
    /\ TheCommand.number = None

LookupSucceeds ==
    \/ TheCommand.name = "id" /\ IdRows # {}
    \/ ByTitle /\ Cardinality(TitleRows) = 1
    \/ /\ ByTitle
       /\ Cardinality(TitleRows) >= 2
       /\ TheCommand.number # None
       /\ TheCommand.number[1] \in 1..Cardinality(TitleRows)

NothingOpenedOrShown == spawned = <<>> /\ stdout = <<>>

\* C9: on the open, show and id commands, a lookup that finds nothing or an
\* index out of range ends the run with status 1 and opens or shows no note;
\* a successful lookup ends it with status 0; in neither case does the
\* process start the GUI main loop.
C9_ExitStatus ==
    OnCommandPath =>
        /\ (NotFound \/ InvalidSelection) =>
              (exitStatus = Some(1) /\ NothingOpenedOrShown /\ ~guiStarted)
        /\ LookupSucceeds =>
              (exitStatus = Some(0) /\ stdout # <<>> /\ ~guiStarted)

\* A run of `open` with an index beyond three candidates has ended.
C9_Witness ==
    /\ OnCommandPath
    /\ TheCommand.name = "open"
    /\ Cardinality(TitleRows) = 3
    /\ TheCommand.number = Some(4)
    /\ exitStatus = Some(1)

\* C10 (as claimed): a title lookup that yields several notes, with no index,
\* does not end in the failure status used for NotFound and InvalidSelection.
C10_AmbiguousNotFailure ==
    (OnCommandPath /\ Ambiguous) => exitStatus # Some(1)

(***************************************************************************)
(* Claims about the CLI search (checked under SpecSearch)                  *)
(***************************************************************************)
\* The row of the store a returned note was read from.
RowOfNote(n) == items[n.id]

\* notes holds each row of S once, as the row closure decodes it.
ExactlyRows(notes, S) ==
    /\ Len(notes) = Cardinality(S)
    /\ {notes[i].id : i \in DOMAIN notes} = {x.id : x \in S}
    /\ \A i \in DOMAIN notes : notes[i] = NoteOfRow(RowOfNote(notes[i]))

InRankOrder(notes) ==
    \A i, j \in DOMAIN notes :
        i < j => RowOfNote(notes[i]).rank[1] <= RowOfNote(notes[j]).rank[1]

InSortOrder(notes) ==
    \A i, j \in DOMAIN notes :
        i < j => RowOfNote(notes[i]).sort_order <= RowOfNote(notes[j]).sort_order

PrimaryYieldsRows == ftsFail = None /\ FtsRows(items) # {}

FallbackIssued == \E i \in DOMAIN issued : issued[i] = "like"

\* C11: when the primary full-text statement succeeds with at least one row,
\* search_notes returns exactly those rows in rank order and never issues the
\* fallback statement; the fallback statement is issued only when the primary
\* one failed or yielded no row, and the rows then returned are exactly the
\* rows of the fallback statement in sort_order order.
C11_TwoTier ==
    sPc = "done" =>
        /\ PrimaryYieldsRows =>
              /\ issued = <<"fts">>
              /\ found.ok
              /\ ExactlyRows(found.rows, FtsRows(items))
              /\ InRankOrder(found.rows)
        /\ FallbackIssued => (ftsFail # None \/ FtsRows(items) = {})
        /\ (FallbackIssued /\ found.ok) =>
              /\ ExactlyRows(found.rows, LikeRows(items, query))
              /\ InSortOrder(found.rows)

\* The primary statement yielded two rows whose rank order reverses their id
\* order, and the search has returned.
C11_Witness ==
    /\ sPc = "done"
    /\ PrimaryYieldsRows
    /\ Len(items) = 2
    /\ items[1].rank = Some(2)
    /\ items[2].rank = Some(1)
    /\ Len(found.rows) = 2

\* C13 (as claimed): a search with an empty or all-whitespace query returns
\* the empty result and hands no statement to the store, whatever the store
\* holds; here for search_notes of cli.rs.
C13_BlankQueryNoStore ==
    (sPc = "done" /\ split_whitespace(query) = <<>>) =>
        (issued = <<>> /\ found = SqlOk(<<>>))

\* C14 (as claimed): every item a search returns has kind note and is not
\* soft-deleted (deleted_at is absent); here for search_notes of cli.rs, in
\* either tier.
C14_OnlyLiveNotes ==
    sPc = "done" =>
        \A i \in DOMAIN found.rows :
            /\ found.rows[i].item_type = "note"
            /\ RowOfNote(found.rows[i]).deleted_at = None

(***************************************************************************)
(* Claims about the quick search (checked under SpecQuick)                 *)
(***************************************************************************)
\* C12 (as claimed): a failure of the full-text query (at prepare, execution
\* or row decoding) is never surfaced by search; here for the quick app,
\* whose full-text query is the combined statement: with a connection at
\* hand, search_notes does not return an error when that statement fails.
C12_PrimaryFailureNotSurfaced ==
    (qPc = "done" /\ qConn # None /\ qFail # None) => qFound.ok

\* The ids of the live notes the full-text index matches, and of the live
\* notes reached only through the title of their book or section.
FtsIds ==
    {i \in DOMAIN qItems :
        /\ qItems[i].item_type = "note"
        /\ qItems[i].deleted_at = None
        /\ qItems[i].rank # None}

ParentIds ==
    {i \in DOMAIN qItems :
        /\ qItems[i].item_type = "note"
        /\ qItems[i].deleted_at = None
        /\ ParentMatches(qItems, qItems[i], to_lowercase(qQuery))
        /\ i \notin FtsIds}

\* The search ran its statement, and neither the statement nor a row failed.
QuickRan == qPc = "done" /\ qFound.ok /\ qIssued # <<>>
QuickRanClean == QuickRan /\ qFail = None /\ qUndecodable = {}

ResultId(k) == qFound.results[k].id

\* (priority, rank) of the row with id i is at most that of the row with id j.
RowLeq(i, j) ==
    \/ i \in FtsIds /\ j \in ParentIds
    \/ i \in FtsIds /\ j \in FtsIds /\ qItems[i].rank[1] <= qItems[j].rank[1]
    \/ i \in ParentIds /\ j \in ParentIds

Min(a, b) == IF a <= b THEN a ELSE b

\* C15: the quick search returns the first 15 rows of the union of the
\* full-text results (priority 1) and the parent matches (priority 2) in
\* (priority, rank) order: at most 15 results, every full-text result before
\* every parent match, full-text results in ascending rank, and a parent
\* match only when fewer than 15 full-text results exist.
C15_FirstFifteen ==
    /\ QuickRan =>
          LET res == qFound.results
          IN  /\ Len(res) <= ResultLimit
              /\ \A k, l \in DOMAIN res :
                    k < l => /\ ~(ResultId(k) \in ParentIds /\ ResultId(l) \in FtsIds)
                             /\ (ResultId(k) \in FtsIds /\ ResultId(l) \in FtsIds) =>
                                   qItems[ResultId(k)].rank[1] <= qItems[ResultId(l)].rank[1]
              /\ (\E k \in DOMAIN res : ResultId(k) \in ParentIds) =>
                    Cardinality(FtsIds) < ResultLimit
    /\ QuickRanClean =>
          LET res == qFound.results
              returned == {ResultId(k) : k \in DOMAIN res}
          IN  /\ Len(res) = Min(ResultLimit, Cardinality(FtsIds \cup ParentIds))
              /\ Cardinality(returned) = Len(res)
              /\ returned \subseteq FtsIds \cup ParentIds
              /\ \A i \in returned, j \in (FtsIds \cup ParentIds) \ returned : RowLeq(i, j)

\* Sixteen full-text results and a parent match exist, and fifteen results
\* have been returned.
C15_Witness ==
    /\ QuickRanClean
    /\ Cardinality(FtsIds) = ResultLimit + 1
    /\ ParentIds # {}
    /\ Len(qFound.results) = ResultLimit

\* C16: in the quick search match_type is "parent" exactly for the rows of
\* parent_matches; for a full-text row it is "title" when the lowercased
\* title contains the lowercased query, and "content" otherwise.
C16_MatchType ==
    QuickRan =>
        \A k \in DOMAIN qFound.results :
            LET r == qFound.results[k]
                in_title == contains(to_lowercase(qItems[r.id].title), to_lowercase(qQuery))
            IN  /\ (r.match_type = "parent") <=> (r.id \in ParentIds)
                /\ r.id \in FtsIds =>
                      r.match_type = IF in_title THEN "title" ELSE "content"

\* One search has returned a result of each of the three match types.
C16_Witness ==
    /\ QuickRan
    /\ \A t \in {"parent", "title", "content"} :
          \E k \in DOMAIN qFound.results : qFound.results[k].match_type = t

(***************************************************************************)
(* Claims about strip_html and truncate (checked under SpecText)           *)
(***************************************************************************)
HasToken(s, t) == \E i \in DOMAIN s : s[i] = t

HasEntity(s, tail) == contains(s, Entity(tail))

Outputs == {plain.cli, plain.quick}

\* C17 (as claimed): the output of strip_html holds no literal '<' or '>' and
\* no raw occurrence of any handled entity code.
C17_NoMarkupLeft ==
    tPc = "stripped" =>
        \A out \in Outputs :
            /\ ~HasToken(out, "<")
            /\ ~HasToken(out, ">")
            /\ \A tail \in EntityTails : ~HasEntity(out, tail)

\* C17 (amended): the text the tag removal leaves holds no literal '<' or
\* '>', and the output of strip_html holds no raw occurrence of &lt; &gt;
\* &quot; &#39; or &apos;.
C17_NoTagNoLateEntity ==
    tPc = "stripped" =>
        /\ ~HasToken(stripped, "<")
        /\ ~HasToken(stripped, ">")
        /\ \A out \in Outputs :
              \A tail \in EntityTails \ {"nbsp;", "amp;"} : ~HasEntity(out, tail)

\* strip_html has been applied to &lt; followed by a stray '>' and has
\* returned the decoded character alone.
C17_Witness ==
    /\ tPc = "stripped"
    /\ tHtml = <<"&", "lt;", ">">>
    /\ stripped = <<"&", "lt;">>
    /\ plain.cli = <<"<">>

\* Decoding in one pass: each entity of the text is replaced where it
\* stands, and the replacement is not looked at again.
RECURSIVE SinglePassDecode(_)
SinglePassDecode(s) ==
    IF s = <<>> THEN <<>>
    ELSE IF Len(s) >= 2 /\ s[1] = "&" /\ s[2] \in EntityTails
         THEN <<CASE s[2] = "nbsp;" -> " " [] s[2] = "amp;" -> "&"
                  [] s[2] = "lt;" -> "<" [] s[2] = "gt;" -> ">"
                  [] s[2] = "quot;" -> "\"" [] OTHER -> "'">>
              \o SinglePassDecode(SubSeq(s, 3, Len(s)))
         ELSE <<s[1]>> \o SinglePassDecode(Tail(s))

\* C18 (as claimed): strip_html decodes the entities of the tag-stripped
\* text in a single pass, text produced by decoding an entity never being
\* decoded again, so that "&amp;lt;" gives "&lt;" and "&amp;amp;" "&amp;".
C18_SinglePassDecoding ==
    tPc = "stripped" =>
        /\ plain.cli = trim(CollapseFrom(SinglePassDecode(stripped), FALSE, TRUE))
        /\ plain.quick = trim(CollapseFrom(SinglePassDecode(stripped), FALSE, FALSE))
        /\ tHtml = <<"&", "amp;", "lt;">> => plain.cli = <<"&", "lt;">>
        /\ tHtml = <<"&", "amp;", "amp;">> => plain.cli = <<"&", "amp;">>

\* C19 (as claimed): truncate returns the text unchanged when its length is
\* at most max_len, and otherwise its first max(max_len - 3, 0) units
\* followed by "..."; it returns a string for every input, without failing.
C19_TruncateTotal ==
    tPc = "truncated" =>
        /\ ~truncated.panic
        /\ IF byte_len(tText) <= tMaxLen
           THEN truncated.out = tText
           ELSE \E n \in 0..Len(tText) :
                   /\ byte_len(SubSeq(tText, 1, n)) = (IF tMaxLen >= 3 THEN tMaxLen - 3 ELSE 0)
                   /\ truncated.out = SubSeq(tText, 1, n) \o <<".", ".", ".">>

(***************************************************************************)
(* Claims about get_item_path (checked under SpecPath)                     *)
(***************************************************************************)
\* The titles from the topmost reachable ancestor down to the row of id; no
\* title when id is absent or has no row.
RECURSIVE ChainTitles(_, _)
ChainTitles(id, fuel) ==
    IF fuel = 0 \/ id = None THEN <<>>
    ELSE IF id[1] \notin DOMAIN pStore THEN <<>>
    ELSE ChainTitles(pStore[id[1]].parent_id, fuel - 1) \o <<pStore[id[1]].title>>

RECURSIVE Joined(_)
Joined(titles) ==
    IF titles = <<>> THEN <<>>
    ELSE IF Len(titles) = 1 THEN <<titles[1]>>
    ELSE <<titles[1], " / ">> \o Joined(Tail(titles))

WalkReturned == pPc = "done" /\ pResult[1].err # "prepare"

\* C20: get_item_path returns the titles on the parent chain of the item
\* joined with " / ", the root first and the item's own title last; a root
\* item gives its own title; a parent_id without a row ends the walk without
\* an error, with the titles collected so far, and a start id without a row
\* gives the empty string.
C20_Breadcrumb ==
    WalkReturned =>
        /\ pResult[1].ok
        /\ pResult[1].path = Joined(ChainTitles(Some(pStart), MaxPathSteps + 1))
        /\ pStart \notin DOMAIN pStore => pResult[1].path = <<>>
        /\ (pStart \in DOMAIN pStore /\ pStore[pStart].parent_id = None) =>
              pResult[1].path = <<pStore[pStart].title>>

\* The walk from row 1, whose parent is row 2, whose parent_id names no row,
\* has returned the two titles.
C20_Witness ==
    /\ WalkReturned
    /\ pStart = 1
    /\ Len(pStore) = 2
    /\ pStore[1].parent_id = Some(2)
    /\ pStore[2].parent_id = Some(MaxPathItems + 1)
    /\ pResult[1].path = <<"2", " / ", "1">>

\* The ids of the rows the walk from id meets, in the order it meets them,
\* for at most fuel rows.
RECURSIVE WalkIds(_, _)
WalkIds(id, fuel) ==
    IF fuel = 0 \/ id = None THEN <<>>
    ELSE IF id[1] \notin DOMAIN pStore THEN <<>>
    ELSE <<id[1]>> \o WalkIds(pStore[id[1]].parent_id, fuel - 1)

\* The parent_id links from the start row lead back to a row already met:
\* the walk meets more rows than the store holds.
CyclicWalk == Len(WalkIds(Some(pStart), Len(pStore) + 1)) > Len(pStore)

ChainIds == WalkIds(Some(pStart), Len(pStore))

\* C21: on a chain without a cycle the walk of get_item_path terminates and
\* has collected each row from the start row to its root (or to the first
\* missing row) exactly once; on a chain with a cycle the loop condition
\* never fails and no lookup misses, so the walk never leaves its loop.
C21_WalkTermination ==
    /\ [](~CyclicWalk ~> pPc = "done")
    /\ []((~CyclicWalk /\ WalkReturned) =>
            /\ path_parts = [k \in DOMAIN ChainIds |-> pStore[ChainIds[k]].title]
            /\ \A k, l \in DOMAIN ChainIds : k # l => ChainIds[k] # ChainIds[l])
    /\ [](CyclicWalk =>
            /\ pPc # "break"
            /\ pPc = "done" => ~pResult[1].ok
            /\ pPc = "loop" => (current_id # None /\ current_id[1] \in DOMAIN pStore))

\* The walk from a row that is its own parent has collected as many titles
\* as the model follows, and is still in its loop.
C21_Witness ==
    /\ pPc = "loop"
    /\ pStart = 1
    /\ Len(pStore) >= 1
    /\ pStore[1].parent_id = Some(1)
    /\ Len(path_parts) = MaxPathSteps
    /\ current_id = Some(1)

(***************************************************************************)
(* Claims about the tree view (checked under SpecTree)                     *)
(***************************************************************************)
\* The positions of the printed lines that show the note n.
LinesOf(n) == {k \in DOMAIN trOut : trOut[k][4] = n.title}

HasRow(id) == \E k \in DOMAIN trNotes : trNotes[k].id = id

\* The parent_id links from id end, at a root or at an id without a row,
\* within fuel rows.
RECURSIVE TreeChainEnds(_, _)
TreeChainEnds(id, fuel) ==
    IF id = None \/ ~HasRow(id[1]) THEN TRUE
    ELSE IF fuel = 0 THEN FALSE
    ELSE LET k == CHOOSE j \in DOMAIN trNotes : trNotes[j].id = id[1]
         IN  TreeChainEnds(trNotes[k].parent_id, fuel - 1)

TreeAcyclic == \A i \in DOMAIN trNotes : TreeChainEnds(Some(trNotes[i].id), Len(trNotes))

\* C22 (as claimed): the tree view holds every input item exactly once; an
\* item without parent_id, and an item whose parent has no row in the input,
\* is a root; every other item appears below its parent, one level deeper
\* (for item lists whose parent_id links have no cycle).
C22_TreeComplete ==
    (trPc = "done" /\ trRes = "Ok" /\ TreeAcyclic) =>
        \A i \in DOMAIN trNotes :
            LET n == trNotes[i]
            IN  /\ Cardinality(LinesOf(n)) = 1
                /\ \A k \in LinesOf(n) :
                      IF n.parent_id = None \/ ~HasRow(n.parent_id[1])
                      THEN trOut[k][2] = 0
                      ELSE \E j \in DOMAIN trNotes :
                              /\ trNotes[j].id = n.parent_id[1]
                              /\ \E m \in LinesOf(trNotes[j]) :
                                    m < k /\ trOut[k][2] = trOut[m][2] + 1

BothWays ==
    {i \in FtsIds : ParentMatches(qItems, qItems[i], to_lowercase(qQuery))}

\* C24: no item id appears twice in the results of the quick search; a note
\* that matches the full-text query is no parent match even when its parent
\* or grandparent title holds the query, so it is reported once, as a
\* full-text result (priority 1, match_type title or content).
C24_NoDuplicateIds ==
    (qPc = "done" /\ qFound.ok) =>
        LET res == qFound.results
        IN  /\ \A k, l \in DOMAIN res : k # l => res[k].id # res[l].id
            /\ \A k \in DOMAIN res :
                  res[k].id \in BothWays => res[k].match_type # "parent"

\* A search returned a note that matches both ways.
C24_Witness ==
    /\ QuickRanClean
    /\ \E k \in DOMAIN qFound.results : ResultId(k) \in BothWays

(***************************************************************************)
(* Claims about the shared connection (checked under SpecMutex)            *)
(***************************************************************************)
\* The thread is between its first use of the connection and its return.
UsesConn(c) == mxPc[c] \in {"locked", "prepare", "query_map", "rows"}

\* The thread is preparing or running its statement on the connection.
InFlight(c) == mxPc[c] \in {"prepare", "query_map", "rows"}

\* C25: search_notes calls never overlap on the shared connection: a thread
\* holds the guard from before its first use of the connection until it
\* returns, so at most one thread has a query in flight; and a call made
\* while the connection is not initialized returns the error without
\* preparing a statement.
C25_SerializedOnConnection ==
    /\ \A c \in DOMAIN mxPc : UsesConn(c) => mxHolder = Some(c)
    /\ \A c, d \in DOMAIN mxPc : (InFlight(c) /\ InFlight(d)) => c = d
    /\ \A c \in DOMAIN mxPc :
          dbConn = None =>
              /\ ~InFlight(c)
              /\ ~mxQueried[c]
              /\ mxPc[c] = "done" => mxRet[c] = Some(NotInitialized)

\* One thread is reading its rows while another waits for the guard.
C25_Witness ==
    /\ mxPhase = "serving"
    /\ \E c, d \in DOMAIN mxPc : mxPc[c] = "rows" /\ mxPc[d] = "lock"

(***************************************************************************)
(* Claims about the edge of the debounce (checked under SpecWatcher)       *)
(***************************************************************************)
\* C27: the debounce is leading-edge only. A worker emits only in the step
\* in which it receives a watched-name event more than 100 ms after its last
\* emission (or its start); a watched-name event it receives within the
\* window is absorbed, and nothing emits for it later: as long as the worker
\* receives no further watched-name event, its notifications stay as they
\* are.
C27_LeadingEdgeOnly ==
    [][\A w \in Workers :
          /\ emitted'[w] # emitted[w] =>
                /\ Receives(w)
                /\ HasWatchedName(Head(rx[w]).paths)
                /\ clock - last_event_time[w] > 100
                /\ emitted'[w] = Append(emitted[w], clock)
          /\ (Receives(w) /\ HasWatchedName(Head(rx[w]).paths)
                /\ clock - last_event_time[w] <= 100) =>
                emitted'[w] = emitted[w]]_vars

\* A worker absorbed a watched-name event, its channel is empty, the window
\* has long passed and the change has not been notified.
C27_Witness ==
    \E w \in Workers :
        /\ wpc[w] = "loop"
        /\ rx[w] = <<>>
        /\ matched[w] # <<>>
        /\ emitted[w] = <<>>
        /\ clock - matched[w][Len(matched[w])] > 100
        /\ clock = MaxTime

(***************************************************************************)
(* Claims about repeated registration (checked under SpecWatchers)         *)
(***************************************************************************)
\* The calls that succeeded.
Registered == {c \in DOMAIN calls : calls[c] = "Ok"}

\* The one change reported was for a watched name, and every registered
\* worker has received it.
OneChangeReceivedByAll ==
    /\ nEvents = 1
    /\ \A w \in Registered :
          /\ wpc[w] = "loop"
          /\ rx[w] = <<>>
          /\ lastRecv[w] # NoRecv
          /\ HasWatchedName(lastRecv[w].paths)

\* Worker w received the change within 100 ms of its start and absorbed it.
AbsorbedInWindow(w) ==
    /\ emitted[w] = <<>>
    /\ lastRecv[w].t - last_event_time[w] <= 100

RECURSIVE Notifications(_)
Notifications(S) ==
    IF S = {} THEN 0
    ELSE LET w == CHOOSE x \in S : TRUE
         IN  Len(emitted[w]) + Notifications(S \ {w})

\* C26: every successful setup_config_watcher call has its own worker with
\* its own channel and its own lastEmitTime, and a later call is not
\* refused: a reported change reaches the channel of every registered
\* worker, a worker's step changes the channel, lastEmitTime and
\* notifications of no other worker, and after k successful calls one
\* watched-name change that every worker receives outside its window is
\* notified k times.
C26_EachRegistrationNotifies ==
    /\ [](OneChangeReceivedByAll =>
            /\ \A w \in Registered :
                  emitted[w] = <<lastRecv[w].t>> \/ AbsorbedInWindow(w)
            /\ (\A w \in Registered : ~AbsorbedInWindow(w)) =>
                  Notifications(Registered) = Cardinality(Registered))
    /\ [][\A w \in DOMAIN wpc :
            /\ Receives(w) =>
                  \A v \in DOMAIN wpc \ {w} :
                      /\ rx'[v] = rx[v]
                      /\ last_event_time'[v] = last_event_time[v]
                      /\ emitted'[v] = emitted[v]
            /\ nEvents' # nEvents =>
                  (w \in Registered => Len(rx'[w]) = Len(rx[w]) + 1)]_vars

\* Two calls succeeded, and the one change reported has been notified by
\* both workers.
C26_Witness ==
    /\ calls = <<"Ok", "Ok">>
    /\ nEvents = 1
    /\ \A w \in {1, 2} : Len(emitted[w]) = 1 /\ rx[w] = <<>>

=============================================================================
